---- MODULE Spec2Model ----
(***************************************************************************)
(* Model of the blueprint gRPC handler (handler/blueprint.go) with its     *)
(* in-process sliding-window rate limiter, its metrics and the Redis       *)
(* cache wrapper (pkg/cache) it calls.                                     *)
(*                                                                         *)
(* Time is counted in units of 30 seconds: time.Minute is 2 units and the   *)
(* 5 minute cache TTL is 10 units. What happens on a finer scale is an     *)
(* input of the step it happens in: the elapsed time recordMetrics is      *)
(* given, and the moment the bounded context of a Call (30 s timeout or    *)
(* cancellation by the caller) is done.                                    *)
(***************************************************************************)
EXTENDS Integers, Sequences, FiniteSets, TLC

VARIABLES
    clock,        \* time.Now(), in units of 30 s (monotonic reading)
    limit,        \* RateLimiter.limit
    window,       \* RateLimiter.window
    requests,     \* RateLimiter.requests: map identifier -> []time.Time
    rlMu,         \* RateLimiter.mu: the goroutine holding it, or NoProc
    metrics,      \* Blueprint.metrics
    store,        \* the Redis backend: full key -> [data, exp]
    stats,        \* Cache.stats
    dbConfigured, \* Blueprint.DB != nil
    budget,       \* number of Calls the clients may still start
    pc,           \* per goroutine: position inside Call
    req,          \* per goroutine: the *pb.CallRequest of the running Call
    now,          \* per goroutine: checkRateLimit's local `now`
    snap,         \* per goroutine: checkRateLimit's locals `requests, exists`
    ctx,          \* per goroutine: the context of line 83: "none", "live", "done"
    result,       \* per goroutine: what the running/last Call returns
    ops,          \* per goroutine: what the running/last Call has done so far
    completed,    \* Calls returned since construction or the last ResetMetrics
    failed,       \* of those, the Calls that returned an error
    admitLog,     \* identifier -> every timestamp checkRateLimit admitted, in order
    last,         \* the latest call a direct client made on the Cache, its outcome
    tally,        \* what that client has had from the Cache since ResetStats
    wired,        \* which of Blueprint.rateLimiter, Blueprint.Cache are not nil
    health,       \* the latest HealthCheck: the probes' outcomes, what it returned
    elapsed,      \* the duration handed to the latest recordMetrics
    retries,      \* Cache.maxRetries
    mu,           \* Blueprint.mu: its writer (or NoProc) and its readers
    statsMu,      \* Cache.mu: its writer (or NoProc) and its readers
    script,       \* per goroutine, the lock and backend events still ahead
    loggers,      \* the Loggers made so far: for each, the field map it holds
    fields,       \* the field maps made so far
    logMu,        \* per Logger, the goroutine holding Logger.mu, or NoProc
    lpc           \* per goroutine, its position inside WithFields

vars == <<clock, limit, window, requests, rlMu, metrics, store, stats,
          dbConfigured, budget, pc, req, now, snap, ctx, result, ops,
          completed, failed, admitLog, last, tally, wired, health, elapsed,
          retries, mu, statsMu, script, loggers, fields, logMu, lpc>>

\* The variables of the direct client of the Cache.
clientVars == <<last, tally>>

\* The two read-write mutexes and the goroutines' lock-level positions.
lockVars == <<mu, statsMu, script>>

\* The heap of Loggers.
logVars == <<loggers, fields, logMu, lpc>>

-----------------------------------------------------------------------------
\* Bounds of the model.
MaxCalls  == 3     \* Calls started in one run of Spec
MaxLimit  == 2     \* RateLimiter.limit is drawn from 1..MaxLimit
MaxWindow == 2     \* SpecRL draws RateLimiter.window from 1..MaxWindow
RefCalls  == 102   \* Calls started in one run of SpecRef

MaxRetriesOpt == 4 \* Options.MaxRetries is drawn from -1..MaxRetriesOpt
MaxSample == 2     \* elapsed times handed to recordMetrics: 0..MaxSample
MaxOps    == 4     \* calls the direct client of the Cache makes in SpecCache

\* Program constants (durations in units of 30 s).
maxRetries        == 3      \* pkg/cache: maxRetries
retryDelay        == 100    \* pkg/cache: retryDelay, in ms
defaultExpiration == 120    \* pkg/cache: defaultExpiration = time.Hour
RefLimit       == 100    \* NewBlueprint: limit: 100
RefWindow      == 2      \* NewBlueprint: window: time.Minute
cacheTTL       == 10     \* 5*time.Minute in Call's SetWithTTL
MaxNameLen     == 100    \* validateRequest: len(req.Name) > 100
defaultPrefix  == "blueprint"

Procs  == {1, 2}
NoProc == 0

Ten(s)   == s \o s \o s \o s \o s \o s \o s \o s \o s \o s
LongName == Ten(Ten("x")) \o "x"          \* 101 bytes
Names    == {"Al", "Bo"}                  \* names that pass validation

\* What the direct client of the Cache passes in.
CacheKeys   == {"a", "b"}
CacheValues == {[Msg |-> "v1"], [Msg |-> "v2"]}
KeyLists    == {<<>>} \cup {<<k>> : k \in CacheKeys}
                      \cup {<<j, k>> : j, k \in CacheKeys}
TTLs        == {1, 2}
\* A value json.Marshal rejects (a channel), and the batches that hold one.
Unserializable == [chan |-> TRUE]
BadItemMaps ==
    {items \in [CacheKeys -> CacheValues \cup {Unserializable}] :
        \E k \in CacheKeys : items[k] = Unserializable}
ItemMaps    == UNION {[ks -> CacheValues] : ks \in SUBSET CacheKeys}
\* Full keys another client of the backend writes: one under the prefix of
\* the Cache, two outside it.
ForeignKeys == {"blueprint:a", "blueprints:b", "other:a"}
\* SpecCache runs until one unit past the longest ttl.
Horizon     == (CHOOSE t \in TTLs : \A u \in TTLs : u <= t) + 1
Failures    == {0, maxRetries - 1, maxRetries}     \* failing attempts of a Set
Range(f)    == {f[i] : i \in DOMAIN f}

NilReq   == [nil |-> TRUE,  Name |-> ""]
Req(n)   == [nil |-> FALSE, Name |-> n]
Requests == {NilReq, Req(""), Req(LongName)} \cup {Req(n) : n \in Names}

NoErr    == "nil"
NoResult == [code |-> "none", msg |-> ""]
NoCtx    == "none"
NoSnap   == [exists |-> FALSE, list |-> <<>>]
NoOps    == [rl |-> 0, get |-> 0, hit |-> 0, miss |-> 0, logic |-> 0, db |-> 0,
             put |-> 0, getErr |-> NoErr, dbErr |-> FALSE, putErr |-> FALSE,
             expired |-> FALSE]
ZeroMetrics == [TotalRequests |-> 0, SuccessfulCalls |-> 0, FailedCalls |-> 0,
                CacheHits |-> 0, CacheMisses |-> 0, AvgResponseTime |-> 0]
ZeroStats   == [Hits |-> 0, Misses |-> 0, Sets |-> 0, Deletes |-> 0]

\* NewBlueprint with a cache: the limiter and the Cache are set.
Constructed == [rateLimiter |-> TRUE, Cache |-> TRUE]
\* A struct literal may leave either pointer nil.
Wirings     == [rateLimiter : BOOLEAN, Cache : BOOLEAN]
\* &Blueprint{Log: log}
Bare        == [rateLimiter |-> FALSE, Cache |-> FALSE]
NoHealth    == [called |-> FALSE, dbOk |-> TRUE, cacheOk |-> TRUE, err |-> NoErr]
NoSample    == 0 - 1

\* A call on the Cache and what it returned. keys: the logical keys given;
\* value, ttl: what a write was given; err: the class of the error returned;
\* val: what Get decoded into dest; found: what Exists returned; attempts:
\* the backend writes Set issued; fails: the attempts of a Set the backend
\* failed; live: the given keys the backend held when the call began.
NoCall    == [op |-> "none", keys |-> <<>>, value |-> [Msg |-> ""], ttl |-> 0,
              err |-> NoErr, val |-> [Msg |-> ""], found |-> FALSE,
              attempts |-> 0, fails |-> 0, live |-> {}, slept |-> <<>>]

\* The client's own count since ResetStats: writes that returned nil, Gets of
\* keys the backend held, Gets of keys it did not hold, Deletes that returned
\* nil; written: the values of those writes; other: some call failed.
ZeroTally == [sets |-> 0, hits |-> 0, misses |-> 0, deletes |-> 0,
              written |-> {}, other |-> FALSE]

-----------------------------------------------------------------------------
\* Pure helpers.

\* NewCacheWithOptions: the maxRetries of the Cache it builds, given
\* opts.MaxRetries. Zero selects the default; every other value is taken
\* as it is.
NewCacheWithOptions(optMaxRetries) ==
    IF optMaxRetries = 0 THEN maxRetries ELSE optMaxRetries

\* NewCache
NewCache == NewCacheWithOptions(maxRetries)

\* errors.Wrapf: nil for a nil error, the error (wrapped) otherwise.
Wrapf(err) == IF err = NoErr THEN NoErr ELSE err

\* A Go map: a function on the keys present.
EmptyMap == [k \in {} |-> 0]
Put(m, k, v) == [x \in DOMAIN m \cup {k} |-> IF x = k THEN v ELSE m[x]]

\* A validation without the length bound.
validateRequestNoLength(r) ==
    IF r.nil THEN "request is nil"
    ELSE IF r.Name = "" THEN "name is required"
    ELSE NoErr

\* validateRequest: the error it returns, NoErr for nil.
validateRequest(r) ==
    IF r.nil THEN "request is nil"
    ELSE IF r.Name = "" THEN "name is required"
    ELSE IF Len(r.Name) > MaxNameLen THEN "name is too long"
    ELSE NoErr

\* A pruning that keeps the timestamp lying exactly on windowStart.
AfterOrEqual(t, windowStart) == t >= windowStart

\* t.After(windowStart)
After(t, windowStart) == t > windowStart

\* The pruning loop of checkRateLimit: the stored timestamps after windowStart,
\* in their order.
validRequests(list, windowStart) ==
    SelectSeq(list, LAMBDA t : After(t, windowStart))

\* A comparison that lets one request too many through.
ExhaustedOffByOne(valid, lim) == Len(valid) > lim

\* len(validRequests) >= limit: the check rejects.
Exhausted(valid, lim) == Len(valid) >= lim

\* fmt.Sprintf("call:%s", req.Name)
cacheKey(name) == "call:" \o name

\* Cache.createKey
createKey(key) == defaultPrefix \o ":" \o key

\* fmt.Sprintf("Hello %s from Forex Platform", req.Name)
Hello(name) == "Hello " \o name \o " from Forex Platform"

\* json.Marshal returns no error for the value.
CanMarshal(v) == v # Unserializable

\* json.Marshal of a pb.CallResponse, as the token sequence of {"msg":"..."}.
Marshal(resp) == <<"{", "msg", resp.Msg, "}">>

\* Bytes some other client of the backend left under a key: not JSON.
Garbage == <<"garbage">>

\* json.Unmarshal into a pb.CallResponse.
Unmarshal(data) ==
    IF Len(data) = 4 /\ data[1] = "{" /\ data[2] = "msg" /\ data[4] = "}"
    THEN [ok |-> TRUE,  val |-> [Msg |-> data[3]]]
    ELSE [ok |-> FALSE, val |-> [Msg |-> ""]]

\* A backend whose entries never expire.
LiveForever(k) == k \in DOMAIN store

\* The backend holds the key and its TTL has not run out.
Live(k) == k \in DOMAIN store /\ clock < store[k].exp

\* ctx.Done() is closed: the timeout of line 83 has passed or the caller cancelled.
Done(p) == ctx[p] = "done"

\* No goroutine has taken the process down with a panic.
Up == \A p \in Procs : pc[p] # "crashed"

\* status.Error(code, msg) / a response.
Status(code, msg) == [code |-> code, msg |-> msg]

\* A sync.RWMutex nobody holds.
Unlocked == [w |-> NoProc, r |-> {}]

\* A goroutine that is not inside WithFields.
Outside == [at |-> "idle", l |-> 0, arg |-> EmptyMap, before |-> EmptyMap]

-----------------------------------------------------------------------------
\* Initial states.

InitFields ==
    /\ clock = 0
    /\ requests = EmptyMap      \* make(map[string][]time.Time)
    /\ rlMu = NoProc
    /\ metrics = ZeroMetrics
    /\ store = EmptyMap
    /\ stats = ZeroStats
    /\ pc = [p \in Procs |-> "idle"]
    /\ req = [p \in Procs |-> NilReq]
    /\ now = [p \in Procs |-> 0]
    /\ snap = [p \in Procs |-> NoSnap]
    /\ ctx = [p \in Procs |-> NoCtx]
    /\ result = [p \in Procs |-> NoResult]
    /\ ops = [p \in Procs |-> NoOps]
    /\ completed = 0
    /\ failed = 0
    /\ admitLog = [n \in Names |-> <<>>]
    /\ last = NoCall
    /\ tally = ZeroTally
    /\ health = NoHealth
    /\ elapsed = NoSample
    /\ mu = Unlocked
    /\ statsMu = Unlocked
    /\ script = [p \in Procs |-> <<>>]
    /\ loggers = <<1>>
    /\ fields = <<EmptyMap>>
    /\ logMu = <<NoProc>>
    /\ lpc = [p \in Procs |-> Outside]

\* The state NewBlueprint leaves, up to the policy and the persistent store.
InitCommon ==
    /\ InitFields
    /\ wired = Constructed
    /\ retries = NewCache

\* Any limit, with or without a persistent store.
Init ==
    /\ InitCommon
    /\ limit \in 1..MaxLimit
    /\ window = RefWindow
    /\ dbConfigured \in BOOLEAN
    /\ budget = MaxCalls

\* NewBlueprint as app.Start calls it: the reference policy, a persistent store.
InitRef ==
    /\ InitCommon
    /\ limit = RefLimit
    /\ window = RefWindow
    /\ dbConfigured = TRUE
    /\ budget = RefCalls

-----------------------------------------------------------------------------
\* The rate limiter (Blueprint.checkRateLimit).

\* A limiter that does not take its mutex.
CanLockAlways(p) == TRUE

\* b.rateLimiter.mu.Lock() can return: nobody holds the mutex.
CanLock(p) == rlMu = NoProc

\* A check that stores the pruned slice and the instant of a rejected
\* request.
AllowRecordsRejected(s, t, lim, win) ==
    IF ~s.exists
    THEN [admit |-> TRUE, write |-> TRUE, list |-> <<t>>]
    ELSE LET valid == validRequests(s.list, t - win)
         IN  IF Exhausted(valid, lim)
             THEN [admit |-> FALSE, write |-> TRUE, list |-> Append(valid, t)]
             ELSE [admit |-> TRUE,  write |-> TRUE, list |-> Append(valid, t)]

\* Lines 156-176 on the map entry read at line 156: whether the check admits
\* and the slice the entry holds afterwards.
Allow(s, t, lim, win) ==
    IF ~s.exists
    THEN [admit |-> TRUE, write |-> TRUE, list |-> <<t>>]
    ELSE LET valid == validRequests(s.list, t - win)
         IN  IF Exhausted(valid, lim)
             THEN [admit |-> FALSE, write |-> FALSE, list |-> s.list]
             ELSE [admit |-> TRUE,  write |-> TRUE,  list |-> Append(valid, t)]

\* Lines 150-156: take the mutex, read the clock and the identifier's entry.
RLEnter(p) ==
    /\ pc[p] = "ratelimit"
    /\ wired.rateLimiter
    /\ CanLock(p)
    /\ rlMu' = p
    /\ now' = [now EXCEPT ![p] = clock]
    /\ snap' = [snap EXCEPT ![p] =
                  IF req[p].Name \in DOMAIN requests
                  THEN [exists |-> TRUE, list |-> requests[req[p].Name]]
                  ELSE NoSnap]
    /\ ops' = [ops EXCEPT ![p].rl = @ + 1]
    /\ pc' = [pc EXCEPT ![p] = "rl_decide"]
    /\ UNCHANGED <<clientVars, retries, lockVars, logVars, wired, health, elapsed>>
    /\ UNCHANGED <<clock, limit, window, requests, metrics, store, stats,
                   dbConfigured, budget, req, ctx, result,
                   completed, failed, admitLog>>

\* Lines 157-177: prune, decide, store, release the mutex (deferred), and in
\* Call lines 79-84: reject with ResourceExhausted or derive the bounded context.
RLDecide(p) ==
    /\ pc[p] = "rl_decide"
    /\ LET id == req[p].Name
           a  == Allow(snap[p], now[p], limit, window)
       IN  /\ requests' = IF a.write THEN Put(requests, id, a.list) ELSE requests
           /\ admitLog' = IF a.admit
                          THEN [admitLog EXCEPT ![id] = Append(@, now[p])]
                          ELSE admitLog
           /\ IF a.admit
              THEN /\ ctx' = [ctx EXCEPT ![p] = "live"]
                   /\ pc' = [pc EXCEPT ![p] = "cacheget"]
                   /\ UNCHANGED result
              ELSE /\ result' = [result EXCEPT ![p] =
                                   Status("ResourceExhausted", "rate limit exceeded")]
                   /\ pc' = [pc EXCEPT ![p] = "defer"]
                   /\ UNCHANGED ctx
    /\ rlMu' = NoProc
    /\ snap' = [snap EXCEPT ![p] = NoSnap]      \* checkRateLimit's locals are gone
    /\ now' = [now EXCEPT ![p] = 0]
    /\ UNCHANGED <<clientVars, retries, lockVars, logVars, wired, health, elapsed>>
    /\ UNCHANGED <<clock, limit, window, metrics, store, stats, dbConfigured,
                   budget, req, ops, completed, failed>>

-----------------------------------------------------------------------------
\* The cache wrapper (pkg/cache), as far as Call uses it.

\* Statistics that leave the misses out.
incrementStatsNoMisses(st, statType) ==
    CASE statType = "hits"    -> [st EXCEPT !.Hits = @ + 1]
      [] statType = "sets"    -> [st EXCEPT !.Sets = @ + 1]
      [] statType = "deletes" -> [st EXCEPT !.Deletes = @ + 1]
      [] OTHER -> st

\* Cache.incrementStatsBy
incrementStatsBy(st, statType, count) ==
    CASE statType = "hits"    -> [st EXCEPT !.Hits = @ + count]
      [] statType = "misses"  -> [st EXCEPT !.Misses = @ + count]
      [] statType = "sets"    -> [st EXCEPT !.Sets = @ + count]
      [] statType = "deletes" -> [st EXCEPT !.Deletes = @ + count]
      [] OTHER -> st

\* Cache.incrementStats
incrementStats(st, statType) == incrementStatsBy(st, statType, 1)

\* A Get that counts a miss whenever the fetch fails.
GetMissOnAnyError(key, backendErr) ==
    LET fullKey == createKey(key)
    IN  IF backendErr \/ ~Live(fullKey)
        THEN [err |-> IF backendErr THEN "backend" ELSE "notfound",
              val |-> [Msg |-> ""], stats |-> incrementStats(stats, "misses")]
        ELSE LET u == Unmarshal(store[fullKey].data)
             IN  IF ~u.ok
                 THEN [err |-> "decode", val |-> u.val, stats |-> stats]
                 ELSE [err |-> NoErr, val |-> u.val,
                       stats |-> incrementStats(stats, "hits")]

\* Cache.Get: the error class it returns, the value decoded into dest and the
\* statistics afterwards. backendErr: the backend call fails (not redis.Nil).
Get(key, backendErr) ==
    LET fullKey == createKey(key)
    IN  IF backendErr
        THEN [err |-> "backend", val |-> [Msg |-> ""], stats |-> stats]
        ELSE IF ~Live(fullKey)
        THEN [err |-> "notfound", val |-> [Msg |-> ""],
              stats |-> incrementStats(stats, "misses")]
        ELSE LET u == Unmarshal(store[fullKey].data)
             IN  IF ~u.ok
                 THEN [err |-> "decode", val |-> u.val, stats |-> stats]
                 ELSE [err |-> NoErr, val |-> u.val,
                       stats |-> incrementStats(stats, "hits")]

\* A write that forgets the prefix of the key.
SetWithTTLNoPrefix(key, value, ttl, backendErr) ==
    IF backendErr
    THEN [err |-> "backend", store |-> store, stats |-> stats]
    ELSE [err |-> NoErr,
          store |-> Put(store, key, [data |-> Marshal(value), exp |-> clock + ttl]),
          stats |-> incrementStats(stats, "sets")]

\* Cache.SetWithTTL: one SetEx, no retry; `sets` counted on success only.
SetWithTTL(key, value, ttl, backendErr) ==
    LET fullKey == createKey(key)
    IN  IF backendErr
        THEN [err |-> "backend", store |-> store, stats |-> stats]
        ELSE [err |-> NoErr,
              store |-> Put(store, fullKey,
                            [data |-> Marshal(value), exp |-> clock + ttl]),
              stats |-> incrementStats(stats, "sets")]

\* A wait of retryDelay after every failed attempt.
backoffConstant(i) == retryDelay

\* retryDelay * time.Duration(i+1): the wait after the failed attempt of
\* loop index i.
backoff(i) == retryDelay * (i + 1)

\* A loop that makes one attempt more than maxRetries.
RECURSIVE SetLoopOneMore(_, _, _, _, _)
SetLoopOneMore(i, fails, fullKey, data, slept) ==
    IF i <= retries
    THEN IF i >= fails
         THEN [err |-> NoErr, attempts |-> i + 1, slept |-> slept,
               store |-> Put(store, fullKey,
                             [data |-> data, exp |-> clock + defaultExpiration]),
               stats |-> incrementStats(stats, "sets")]
         ELSE SetLoopOneMore(i + 1, fails, fullKey, data,
                             IF i < retries
                             THEN Append(slept, backoff(i)) ELSE slept)
    ELSE [err |-> "backend", attempts |-> i, slept |-> slept,
          store |-> store, stats |-> stats]

\* The loop of Cache.Set from index i on, and the return after it. fails:
\* the number of attempts the backend fails before it accepts one; slept:
\* the waits made so far. lastErr is nil when no attempt was made.
RECURSIVE SetLoop(_, _, _, _, _)
SetLoop(i, fails, fullKey, data, slept) ==
    IF i < retries
    THEN IF i >= fails
         THEN [err |-> NoErr, attempts |-> i + 1, slept |-> slept,
               store |-> Put(store, fullKey,
                             [data |-> data, exp |-> clock + defaultExpiration]),
               stats |-> incrementStats(stats, "sets")]
         ELSE SetLoop(i + 1, fails, fullKey, data,
                      IF i < retries - 1
                      THEN Append(slept, backoff(i)) ELSE slept)
    ELSE [err |-> Wrapf(IF i > 0 THEN "backend" ELSE NoErr), attempts |-> i,
          slept |-> slept, store |-> store, stats |-> stats]

\* A Set that keeps the entry the backend already holds.
SetIfAbsent(key, value, fails) ==
    IF Live(createKey(key))
    THEN [err |-> NoErr, attempts |-> 1, slept |-> <<>>, store |-> store,
          stats |-> incrementStats(stats, "sets")]
    ELSE SetLoop(0, fails, createKey(key), Marshal(value), <<>>)

\* Cache.Set: up to c.maxRetries SetEx with the default expiration.
Set(key, value, fails) ==
    SetLoop(0, fails, createKey(key), Marshal(value), <<>>)

\* Cache.Exists
Exists(key, backendErr) ==
    IF backendErr
    THEN [err |-> "backend", found |-> FALSE]
    ELSE [err |-> NoErr, found |-> Live(createKey(key))]

\* The number of keys the backend removes for DEL fullKeys: the distinct
\* keys among them it holds.
Del(fullKeys) == Cardinality({k \in Range(fullKeys) : Live(k)})

\* A Delete that undoes a partial deletion.
DeleteAllOrNothing(keys, backendErr) ==
    LET fullKeys == [i \in DOMAIN keys |-> createKey(keys[i])]
    IN  IF Len(keys) = 0
        THEN [err |-> NoErr, store |-> store, stats |-> stats]
        ELSE IF backendErr
        THEN [err |-> "backend", store |-> store, stats |-> stats]
        ELSE IF Del(fullKeys) # Len(keys)
        THEN [err |-> "partial", store |-> store,
              stats |-> incrementStats(stats, "deletes")]
        ELSE [err |-> NoErr,
              store |-> [k \in DOMAIN store \ Range(fullKeys) |-> store[k]],
              stats |-> incrementStats(stats, "deletes")]

\* A Delete that counts before it knows the backend's answer.
DeleteCountsFirst(keys, backendErr) ==
    LET fullKeys == [i \in DOMAIN keys |-> createKey(keys[i])]
    IN  IF Len(keys) = 0
        THEN [err |-> NoErr, store |-> store, stats |-> stats]
        ELSE IF backendErr
        THEN [err |-> "backend", store |-> store,
              stats |-> incrementStats(stats, "deletes")]
        ELSE [err |-> IF Del(fullKeys) # Len(keys) THEN "partial" ELSE NoErr,
              store |-> [k \in DOMAIN store \ Range(fullKeys) |-> store[k]],
              stats |-> incrementStats(stats, "deletes")]

\* Cache.Delete: one DEL for all the keys; `deletes` counted once the round
\* trip is done, then the count the backend reports is compared.
Delete(keys, backendErr) ==
    LET fullKeys == [i \in DOMAIN keys |-> createKey(keys[i])]
    IN  IF Len(keys) = 0
        THEN [err |-> NoErr, store |-> store, stats |-> stats]
        ELSE IF backendErr
        THEN [err |-> "backend", store |-> store, stats |-> stats]
        ELSE [err |-> IF Del(fullKeys) # Len(keys) THEN "partial" ELSE NoErr,
              store |-> [k \in DOMAIN store \ Range(fullKeys) |-> store[k]],
              stats |-> incrementStats(stats, "deletes")]

\* The backend after SetEx of items[x] under the full key of every x in ks.
PutAll(st, items, ks, ttl) ==
    LET full == {createKey(x) : x \in ks}
        src(k) == CHOOSE x \in ks : createKey(x) = k
    IN  [k \in DOMAIN st \cup full |->
           IF k \in full
           THEN [data |-> Marshal(items[src(k)]), exp |-> clock + ttl]
           ELSE st[k]]

\* A SetBatch that counts, on a failed pipeline, the writes the backend
\* applied.
SetBatchCountsApplied(items, ttl, pipeErr, applied) ==
    IF pipeErr
    THEN [err |-> "backend", store |-> PutAll(store, items, applied, ttl),
          stats |-> incrementStatsBy(stats, "sets", Cardinality(applied))]
    ELSE [err |-> NoErr, store |-> PutAll(store, items, DOMAIN items, ttl),
          stats |-> incrementStatsBy(stats, "sets", Cardinality(DOMAIN items))]

\* A SetBatch that sends each write as soon as its item is serialized.
SetBatchEager(items, ttl, pipeErr, applied) ==
    IF \E k \in DOMAIN items : ~CanMarshal(items[k])
    THEN [err |-> "marshal",
          store |-> PutAll(store, items,
                           {k \in DOMAIN items : CanMarshal(items[k])}, ttl),
          stats |-> stats]
    ELSE IF pipeErr
    THEN [err |-> "backend", store |-> PutAll(store, items, applied, ttl),
          stats |-> stats]
    ELSE [err |-> NoErr, store |-> PutAll(store, items, DOMAIN items, ttl),
          stats |-> incrementStatsBy(stats, "sets", Cardinality(DOMAIN items))]

\* Cache.SetBatch: items maps logical keys to values. An item json.Marshal
\* rejects ends the call before anything is sent (the writes are queued in
\* the pipeline until Exec). pipeErr: pipe.Exec returns an error, after the
\* backend applied the writes of the keys in applied.
SetBatch(items, ttl, pipeErr, applied) ==
    IF \E k \in DOMAIN items : ~CanMarshal(items[k])
    THEN [err |-> "marshal", store |-> store, stats |-> stats]
    ELSE IF pipeErr
    THEN [err |-> "backend", store |-> PutAll(store, items, applied, ttl),
          stats |-> stats]
    ELSE [err |-> NoErr, store |-> PutAll(store, items, DOMAIN items, ttl),
          stats |-> incrementStatsBy(stats, "sets", Cardinality(DOMAIN items))]

\* json.Unmarshal into an interface{}: every JSON document decodes.
UnmarshalAny(data) ==
    IF Len(data) = 4 /\ data[1] = "{" /\ data[4] = "}"
    THEN [ok |-> TRUE,  val |-> [Msg |-> data[3]]]
    ELSE [ok |-> FALSE, val |-> [Msg |-> ""]]

\* Cache.GetBatch: one pipeline of GETs. pipeErr: pipe.Exec returns an error
\* that is not redis.Nil. A command counts as a hit when its bytes decode, as
\* a miss when its key is absent, and as neither otherwise.
GetBatch(keys, pipeErr) ==
    LET fullKeys == [i \in DOMAIN keys |-> createKey(keys[i])]
        decoded(i) == UnmarshalAny(store[fullKeys[i]].data)
        hit    == {i \in DOMAIN keys : Live(fullKeys[i]) /\ decoded(i).ok}
        missed == {i \in DOMAIN keys : ~Live(fullKeys[i])}
    IN  IF pipeErr
        THEN [err |-> "backend", dest |-> EmptyMap, stats |-> stats]
        ELSE [err |-> NoErr,
              dest |-> [k \in {keys[i] : i \in hit} |->
                          UnmarshalAny(store[createKey(k)].data).val],
              stats |-> incrementStatsBy(
                           incrementStatsBy(stats, "hits", Cardinality(hit)),
                           "misses", Cardinality(missed))]

\* strings.HasPrefix, as the glob "<prefix>:*" matches.
HasPrefix(k, pre) == Len(k) >= Len(pre) /\ SubSeq(k, 1, Len(pre)) = pre

\* A Flush that deletes every key of the backend.
FlushAll(scanErr, delErr) ==
    IF scanErr
    THEN [err |-> "scan", store |-> store]
    ELSE IF DOMAIN store # {} /\ delErr
    THEN [err |-> "backend", store |-> store]
    ELSE [err |-> NoErr, store |-> EmptyMap]

\* Cache.Flush: SCAN for "<prefix>:*", then one DEL of what was found.
\* scanErr: the iterator ends with an error; delErr: the DEL fails.
Flush(scanErr, delErr) ==
    LET keys == {k \in DOMAIN store : Live(k) /\ HasPrefix(k, defaultPrefix \o ":")}
    IN  IF scanErr
        THEN [err |-> "scan", store |-> store]
        ELSE IF keys # {} /\ delErr
        THEN [err |-> "backend", store |-> store]
        ELSE [err |-> NoErr, store |-> [k \in DOMAIN store \ keys |-> store[k]]]

-----------------------------------------------------------------------------
\* Blueprint.Call, step by step. Every return path ends at "defer", where the
\* deferred recordMetrics of lines 70-72 runs.

\* Lines 69-77: validate. A client starts a Call with request r.
CallStart(p, r) ==
    /\ pc[p] = "idle"
    /\ budget > 0
    /\ budget' = budget - 1
    /\ req' = [req EXCEPT ![p] = r]
    /\ ops' = [ops EXCEPT ![p] = NoOps]
    /\ ctx' = [ctx EXCEPT ![p] = NoCtx]
    /\ LET err == validateRequest(r)
       IN  IF err # NoErr
           THEN /\ result' = [result EXCEPT ![p] = Status("InvalidArgument", err)]
                /\ pc' = [pc EXCEPT ![p] = "defer"]
           ELSE /\ result' = [result EXCEPT ![p] = NoResult]
                /\ pc' = [pc EXCEPT ![p] = "ratelimit"]
    /\ UNCHANGED <<clientVars, retries, lockVars, logVars, wired, health, elapsed>>
    /\ UNCHANGED <<clock, limit, window, requests, rlMu, metrics, store, stats,
                   dbConfigured, now, snap, completed, failed, admitLog>>

\* Blueprint.incrementCacheHit / incrementCacheMiss
incrementCacheHit(m)  == [m EXCEPT !.CacheHits = @ + 1]
incrementCacheMiss(m) == [m EXCEPT !.CacheMisses = @ + 1]

\* A lookup that never takes its hit branch.
IsHitNever(g) == FALSE

\* Lines 94-98 of Call: the lookup counts as a hit exactly when Get returns nil.
IsHit(g) == g.err = NoErr

\* A lookup whose hit branch does not return.
AfterGetFallThrough(g) == "logic"

\* Where Call goes after the lookup: a hit returns at line 97, anything else
\* falls through to line 99.
AfterGet(g) == IF IsHit(g) THEN "defer" ELSE "logic"

\* Lines 91-99: the cache lookup. backendErr: the backend fails the GET; it
\* always does once the context is done.
CacheGet(p, backendErr) ==
    /\ pc[p] = "cacheget"
    /\ wired.Cache
    /\ LET g == Get(cacheKey(req[p].Name), backendErr \/ Done(p))
       IN  /\ stats' = g.stats
           /\ IF IsHit(g)
              THEN /\ metrics' = incrementCacheHit(metrics)
                   /\ result' = [result EXCEPT ![p] = Status("OK", g.val.Msg)]
                   /\ ops' = [ops EXCEPT ![p].get = @ + 1, ![p].hit = @ + 1]
              ELSE /\ metrics' = incrementCacheMiss(metrics)
                   /\ ops' = [ops EXCEPT ![p].get = @ + 1, ![p].miss = @ + 1,
                                         ![p].getErr = g.err]
                   /\ UNCHANGED result
           /\ pc' = [pc EXCEPT ![p] = AfterGet(g)]
    /\ UNCHANGED <<clientVars, retries, lockVars, logVars, wired, health, elapsed>>
    /\ UNCHANGED <<clock, limit, window, requests, rlMu, store, dbConfigured,
                   budget, req, now, snap, ctx, completed, failed, admitLog>>

\* A business logic that returns the error of its store query.
processBusinessLogicFatal(done, queryFails) ==
    IF done THEN "context" ELSE IF queryFails THEN "query" ELSE NoErr

\* processBusinessLogic: the error it returns. done: ctx.Done() is closed at
\* line 132; queryFails: the query of line 141 fails, which is only logged.
processBusinessLogic(done, queryFails) ==
    IF done THEN "context" ELSE NoErr

\* Lines 101-108 with processBusinessLogic (130-147): the context check, then
\* at most one query of the persistent store, whose failure is only logged.
Logic(p, dbFails) ==
    /\ pc[p] = "logic"
    /\ IF processBusinessLogic(Done(p), dbConfigured /\ dbFails) # NoErr
       THEN /\ result' = [result EXCEPT ![p] =
                            Status("Internal", "internal server error")]
            /\ ops' = [ops EXCEPT ![p].logic = @ + 1, ![p].expired = Done(p),
                                  ![p].db = IF dbConfigured /\ ~Done(p) THEN @ + 1 ELSE @,
                                  ![p].dbErr = dbConfigured /\ dbFails /\ ~Done(p)]
            /\ pc' = [pc EXCEPT ![p] = "defer"]
       ELSE /\ ops' = [ops EXCEPT ![p].logic = @ + 1,
                                  ![p].db = IF dbConfigured THEN @ + 1 ELSE @,
                                  ![p].dbErr = dbConfigured /\ dbFails]
            /\ pc' = [pc EXCEPT ![p] = "cacheset"]
            /\ UNCHANGED result
    /\ UNCHANGED <<clientVars, retries, lockVars, logVars, wired, health, elapsed>>
    /\ UNCHANGED <<clock, limit, window, requests, rlMu, metrics, store, stats,
                   dbConfigured, budget, req, now, snap, ctx,
                   completed, failed, admitLog>>

\* A Call that fails when the cache write fails.
AfterSetFailing(w, response) ==
    IF w.err # NoErr
    THEN Status("Internal", "internal server error")
    ELSE Status("OK", response.Msg)

\* Lines 110-114: what Call returns after the cache write w of the response:
\* the response, whether or not the write failed (a failure is only logged).
AfterSet(w, response) == Status("OK", response.Msg)

\* Lines 110-114: write the response to the cache and return it.
CacheSet(p, backendErr) ==
    /\ pc[p] = "cacheset"
    /\ LET response == [Msg |-> Hello(req[p].Name)]
           w == SetWithTTL(cacheKey(req[p].Name), response, cacheTTL,
                           backendErr \/ Done(p))
       IN  /\ store' = w.store
           /\ stats' = w.stats
           /\ ops' = [ops EXCEPT ![p].put = @ + 1, ![p].putErr = (w.err # NoErr)]
           /\ result' = [result EXCEPT ![p] = AfterSet(w, response)]
    /\ pc' = [pc EXCEPT ![p] = "defer"]
    /\ UNCHANGED <<clientVars, retries, lockVars, logVars, wired, health, elapsed>>
    /\ UNCHANGED <<clock, limit, window, requests, rlMu, metrics, dbConfigured,
                   budget, req, now, snap, ctx, completed, failed, admitLog>>

\* Blueprint.recordMetrics
recordMetrics(m, duration, err) ==
    [m EXCEPT !.TotalRequests = @ + 1,
              !.SuccessfulCalls = IF err = NoErr THEN @ + 1 ELSE @,
              !.FailedCalls = IF err = NoErr THEN @ ELSE @ + 1,
              !.AvgResponseTime = IF @ = 0 THEN duration ELSE (@ + duration) \div 2]

\* The error the deferred closure of lines 70-72 hands to recordMetrics: the
\* literal nil, whatever Call returns.
DeferredErr(res) == NoErr

\* A hook that is skipped when Call returns an error.
DeferredOnSuccess(m, duration, res) ==
    IF res.code = "OK" THEN recordMetrics(m, duration, NoErr) ELSE m

\* The hook Call runs when it returns (lines 70-72).
Deferred(m, duration, res) == recordMetrics(m, duration, DeferredErr(res))

\* Call returns: the deferred hook runs with the elapsed time d, the caller
\* gets result[p] (the value result[p] holds at "defer").
Return(p, d) ==
    /\ pc[p] = "defer"
    /\ metrics' = Deferred(metrics, d, result[p])
    /\ completed' = completed + 1
    /\ failed' = IF result[p].code = "OK" THEN failed ELSE failed + 1
    /\ pc' = [pc EXCEPT ![p] = "idle"]
    /\ req' = [req EXCEPT ![p] = NilReq]          \* Call's locals are gone
    /\ ctx' = [ctx EXCEPT ![p] = NoCtx]
    /\ result' = [result EXCEPT ![p] = NoResult]
    /\ ops' = [ops EXCEPT ![p] = NoOps]
    /\ elapsed' = d
    /\ UNCHANGED <<clientVars, retries, lockVars, logVars, wired, health>>
    /\ UNCHANGED <<clock, limit, window, requests, rlMu, store, stats,
                   dbConfigured, budget, now, snap, admitLog>>

\* A nil pointer is dereferenced: b.rateLimiter.mu at line 150 when the
\* limiter is nil, c.prefix inside Cache.Get (called at line 94) when the
\* Cache is nil. Call panics.
Panic(p) ==
    /\ \/ pc[p] = "ratelimit" /\ ~wired.rateLimiter
       \/ pc[p] = "cacheget" /\ ~wired.Cache
    /\ pc' = [pc EXCEPT ![p] = "panic"]
    /\ UNCHANGED <<clientVars, retries, lockVars, logVars, wired, health, elapsed>>
    /\ UNCHANGED <<clock, limit, window, requests, rlMu, metrics, store, stats,
                   dbConfigured, budget, req, now, snap, ctx, result, ops,
                   completed, failed, admitLog>>

\* The panic unwinds Call: the deferred hook of lines 70-72 runs with the
\* elapsed time d, nothing is returned, and the process goes down with the
\* panic.
Unwind(p, d) ==
    /\ pc[p] = "panic"
    /\ metrics' = Deferred(metrics, d, result[p])
    /\ elapsed' = d
    /\ pc' = [pc EXCEPT ![p] = "crashed"]
    /\ UNCHANGED <<clientVars, retries, lockVars, logVars, wired, health>>
    /\ UNCHANGED <<clock, limit, window, requests, rlMu, store, stats,
                   dbConfigured, budget, req, now, snap, ctx, result, ops,
                   completed, failed, admitLog>>

\* A HealthCheck that probes the persistent store only.
HealthCheckStoreOnly(dbOk, cacheOk) ==
    IF dbConfigured /\ ~dbOk THEN "database connection failed" ELSE NoErr

\* Blueprint.HealthCheck: the error it returns. dbOk: SELECT 1 succeeds;
\* cacheOk: the PING succeeds. The store is probed first, the Cache only
\* when the store is absent or answered.
HealthCheck(dbOk, cacheOk) ==
    IF dbConfigured /\ ~dbOk THEN "database connection failed"
    ELSE IF wired.Cache /\ ~cacheOk THEN "cache connection failed"
    ELSE NoErr

\* A client calls HealthCheck.
CallHealthCheck(dbOk, cacheOk) ==
    /\ Up
    /\ health' = [called |-> TRUE, dbOk |-> dbOk, cacheOk |-> cacheOk,
                  err |-> HealthCheck(dbOk, cacheOk)]
    /\ health' # health
    /\ UNCHANGED <<clientVars, retries, lockVars, logVars, wired, elapsed>>
    /\ UNCHANGED <<clock, limit, window, requests, rlMu, metrics, store, stats,
                   dbConfigured, budget, pc, req, now, snap, ctx, result, ops,
                   completed, failed, admitLog>>

\* Blueprint.ResetMetrics
ResetMetrics ==
    /\ Up
    /\ metrics # ZeroMetrics
    /\ metrics' = ZeroMetrics
    /\ completed' = 0
    /\ failed' = 0
    /\ UNCHANGED <<clientVars, retries, lockVars, logVars, wired, health, elapsed>>
    /\ UNCHANGED <<clock, limit, window, requests, rlMu, store, stats,
                   dbConfigured, budget, pc, req, now, snap, ctx, result,
                   ops, admitLog>>

-----------------------------------------------------------------------------
\* The environment.

\* Time passes: d units, up to the horizon max.
Tick(d, max) ==
    /\ clock + d <= max
    /\ clock' = clock + d
    /\ UNCHANGED <<clientVars, retries, lockVars, logVars, wired, health, elapsed>>
    /\ UNCHANGED <<limit, window, requests, rlMu, metrics, store, stats,
                   dbConfigured, budget, pc, req, now, snap, ctx, result,
                   ops, completed, failed, admitLog>>

\* The bounded context of a running Call is done: its 30 s have passed or
\* the caller has cancelled.
CtxDone(p) ==
    /\ ctx[p] = "live"
    /\ ctx' = [ctx EXCEPT ![p] = "done"]
    /\ UNCHANGED <<clientVars, retries, lockVars, logVars, wired, health, elapsed>>
    /\ UNCHANGED <<clock, limit, window, requests, rlMu, metrics, store, stats,
                   dbConfigured, budget, pc, req, now, snap, result, ops,
                   completed, failed, admitLog>>

\* Another client of the backend leaves bytes that are not JSON under a key.
ForeignWrite(n) ==
    /\ LET k == createKey(cacheKey(n))
       IN  /\ ~(k \in DOMAIN store /\ store[k].data = Garbage)
           /\ store' = Put(store, k, [data |-> Garbage, exp |-> clock + cacheTTL])
    /\ UNCHANGED <<clientVars, retries, lockVars, logVars, wired, health, elapsed>>
    /\ UNCHANGED <<clock, limit, window, requests, rlMu, metrics, stats,
                   dbConfigured, budget, pc, req, now, snap, ctx, result,
                   ops, completed, failed, admitLog>>

-----------------------------------------------------------------------------
\* A direct client of the Cache (as the tests of pkg/cache are): one call
\* after the other, each an atomic step.

handlerVars == <<limit, window, requests, rlMu, metrics, dbConfigured, pc, req,
                 now, snap, ctx, result, ops, completed, failed, admitLog,
                 wired, health, elapsed>>

\* The record of a call made now.
Called(op, keys, value, ttl, err, val, found, attempts) ==
    [op |-> op, keys |-> keys, value |-> value, ttl |-> ttl, err |-> err,
     val |-> val, found |-> found, attempts |-> attempts, fails |-> 0,
     live |-> {k \in Range(keys) : Live(createKey(k))}, slept |-> <<>>]

ClientSet(k, v, fails) ==
    /\ budget > 0
    /\ budget' = budget - 1
    /\ LET w == Set(k, v, fails)
       IN  /\ store' = w.store
           /\ stats' = w.stats
           /\ last' = [Called("Set", <<k>>, v, defaultExpiration, w.err,
                              NoCall.val, FALSE, w.attempts)
                         EXCEPT !.fails = IF fails < w.attempts THEN fails
                                          ELSE w.attempts,
                                !.slept = w.slept]
           /\ tally' = IF w.err = NoErr
                       THEN [tally EXCEPT !.sets = @ + 1, !.written = @ \cup {v}]
                       ELSE [tally EXCEPT !.other = TRUE]
    /\ UNCHANGED <<clock, retries, lockVars, logVars, handlerVars>>

ClientSetWithTTL(k, v, ttl, backendErr) ==
    /\ budget > 0
    /\ budget' = budget - 1
    /\ LET w == SetWithTTL(k, v, ttl, backendErr)
       IN  /\ store' = w.store
           /\ stats' = w.stats
           /\ last' = Called("SetWithTTL", <<k>>, v, ttl, w.err,
                             NoCall.val, FALSE, 1)
           /\ tally' = IF w.err = NoErr
                       THEN [tally EXCEPT !.sets = @ + 1, !.written = @ \cup {v}]
                       ELSE [tally EXCEPT !.other = TRUE]
    /\ UNCHANGED <<clock, retries, lockVars, logVars, handlerVars>>

ClientGet(k, backendErr) ==
    /\ budget > 0
    /\ budget' = budget - 1
    /\ LET g == Get(k, backendErr)
       IN  /\ stats' = g.stats
           /\ last' = Called("Get", <<k>>, NoCall.value, 0, g.err, g.val, FALSE, 0)
    /\ tally' = IF backendErr THEN [tally EXCEPT !.other = TRUE]
                ELSE IF Live(createKey(k)) THEN [tally EXCEPT !.hits = @ + 1]
                ELSE [tally EXCEPT !.misses = @ + 1]
    /\ UNCHANGED <<clock, store, retries, lockVars, logVars, handlerVars>>

ClientExists(k, backendErr) ==
    /\ budget > 0
    /\ budget' = budget - 1
    /\ LET e == Exists(k, backendErr)
       IN  last' = Called("Exists", <<k>>, NoCall.value, 0, e.err, NoCall.val,
                          e.found, 0)
    /\ UNCHANGED <<clock, store, stats, tally, retries, lockVars, logVars, handlerVars>>

ClientDelete(keys, backendErr) ==
    /\ budget > 0
    /\ budget' = budget - 1
    /\ LET d == Delete(keys, backendErr)
       IN  /\ store' = d.store
           /\ stats' = d.stats
           /\ last' = Called("Delete", keys, NoCall.value, 0, d.err, NoCall.val,
                             FALSE, 0)
           /\ tally' = IF Len(keys) = 0 THEN tally
                       ELSE IF d.err = NoErr THEN [tally EXCEPT !.deletes = @ + 1]
                       ELSE [tally EXCEPT !.other = TRUE]
    /\ UNCHANGED <<clock, retries, lockVars, logVars, handlerVars>>

ClientSetBatch(items, ttl, pipeErr, applied) ==
    /\ budget > 0
    /\ budget' = budget - 1
    /\ LET w == SetBatch(items, ttl, pipeErr, applied)
       IN  /\ store' = w.store
           /\ stats' = w.stats
           /\ last' = Called("SetBatch", <<>>, items, ttl, w.err, NoCall.val,
                             FALSE, 0)
    /\ tally' = [tally EXCEPT !.other = TRUE]
    /\ UNCHANGED <<clock, retries, lockVars, logVars, handlerVars>>

ClientGetBatch(keys, pipeErr) ==
    /\ budget > 0
    /\ budget' = budget - 1
    /\ LET g == GetBatch(keys, pipeErr)
       IN  /\ stats' = g.stats
           /\ last' = Called("GetBatch", keys, NoCall.value, 0, g.err, g.dest,
                             FALSE, 0)
    /\ tally' = [tally EXCEPT !.other = TRUE]
    /\ UNCHANGED <<clock, store, retries, lockVars, logVars, handlerVars>>

ClientFlush(scanErr, delErr) ==
    /\ budget > 0
    /\ budget' = budget - 1
    /\ LET f == Flush(scanErr, delErr)
       IN  /\ store' = f.store
           /\ last' = [Called("Flush", <<>>, NoCall.value, 0, f.err,
                              NoCall.val, FALSE, 0)
                         EXCEPT !.live = {k \in CacheKeys : Live(createKey(k))}]
    /\ tally' = [tally EXCEPT !.other = TRUE]
    /\ UNCHANGED <<clock, stats, retries, lockVars, logVars, handlerVars>>

\* Cache.ResetStats
ClientResetStats ==
    /\ stats # ZeroStats \/ tally # ZeroTally
    /\ stats' = ZeroStats
    /\ tally' = ZeroTally
    /\ UNCHANGED <<clock, store, budget, last, retries, lockVars, logVars, handlerVars>>

\* Another client of the backend writes bytes that are not JSON under the
\* full key k.
ForeignSet(k) ==
    /\ ~(k \in DOMAIN store /\ store[k].data = Garbage)
    /\ store' = Put(store, k, [data |-> Garbage, exp |-> clock + cacheTTL])
    /\ UNCHANGED <<clock, stats, budget, clientVars, retries, lockVars, logVars, handlerVars>>

-----------------------------------------------------------------------------
\* Specifications.

Next ==
    \/ \E r \in Requests : CallStart(1, r)
    \/ RLEnter(1)
    \/ RLDecide(1)
    \/ \E e \in BOOLEAN : CacheGet(1, e)
    \/ \E e \in BOOLEAN : Logic(1, e)
    \/ \E e \in BOOLEAN : CacheSet(1, e)
    \/ Return(1, 0)
    \/ CtxDone(1)
    \/ ResetMetrics
    \/ \E n \in Names : ForeignWrite(n)

\* One client and failing collaborators, within one unit of time: any request,
\* any limit, backend errors, undecodable cache entries, contexts that end.
Spec == Init /\ [][Next]_vars

\* The reference deployment: one client calling Call("Al") again and again with
\* healthy collaborators, while one window (60 s) passes.
NextRef ==
    \/ CallStart(1, Req("Al"))
    \/ RLEnter(1)
    \/ RLDecide(1)
    \/ CacheGet(1, FALSE)
    \/ Logic(1, FALSE)
    \/ CacheSet(1, FALSE)
    \/ Return(1, 0)
    \/ Tick(1, window)

SpecRef == InitRef /\ [][NextRef]_vars

\* Concurrent clients against the rate limiter: any policy, healthy
\* collaborators, enough calls and time to fill a window and to leave it.
InitRL ==
    /\ InitCommon
    /\ limit \in 1..MaxLimit
    /\ window \in 1..MaxWindow
    /\ dbConfigured = FALSE
    /\ budget = limit + 2

NextRL ==
    \/ \E p \in Procs : \E n \in Names : CallStart(p, Req(n))
    \/ \E p \in Procs : RLEnter(p)
    \/ \E p \in Procs : RLDecide(p)
    \/ \E p \in Procs : CacheGet(p, FALSE)
    \/ \E p \in Procs : Logic(p, FALSE)
    \/ \E p \in Procs : CacheSet(p, FALSE)
    \/ \E p \in Procs : Return(p, 0)
    \/ Tick(1, window)

SpecRL == InitRL /\ [][NextRL]_vars

\* The Cache under its direct client while time passes: writes whose backend
\* fails some attempts, reads, entries that expire.
InitCache ==
    /\ InitCommon
    /\ limit = RefLimit
    /\ window = RefWindow
    /\ dbConfigured = FALSE
    /\ budget = MaxOps

NextCache ==
    \/ \E k \in CacheKeys, v \in CacheValues, f \in Failures : ClientSet(k, v, f)
    \/ \E k \in CacheKeys, v \in CacheValues, t \in TTLs :
          ClientSetWithTTL(k, v, t, FALSE)
    \/ \E k \in CacheKeys, e \in BOOLEAN : ClientGet(k, e)
    \/ \E k \in CacheKeys : ClientExists(k, FALSE)
    \/ Tick(1, Horizon)

SpecCache == InitCache /\ [][NextCache]_vars

\* The Cache under its direct client that writes, reads, deletes lists of
\* present and absent keys and resets the statistics, within one unit of time.
NextStats ==
    \/ \E k \in CacheKeys, v \in CacheValues, f \in Failures : ClientSet(k, v, f)
    \/ \E k \in CacheKeys, v \in CacheValues, e \in BOOLEAN :
          ClientSetWithTTL(k, v, 1, e)
    \/ \E k \in CacheKeys, e \in BOOLEAN : ClientGet(k, e)
    \/ \E ks \in KeyLists, e \in BOOLEAN : ClientDelete(ks, e)
    \/ ClientResetStats

SpecStats == InitCache /\ [][NextStats]_vars

\* The batch operations and Flush under the direct client, on a backend
\* that other clients write to, within one unit of time.
NextBatch ==
    \/ \E items \in ItemMaps : ClientSetBatch(items, 1, FALSE, {})
    \/ \E items \in ItemMaps : \E applied \in SUBSET DOMAIN items :
          ClientSetBatch(items, 1, TRUE, applied)
    \/ \E ks \in KeyLists, e \in BOOLEAN : ClientGetBatch(ks, e)
    \/ \E e \in {<<FALSE, FALSE>>, <<TRUE, FALSE>>, <<FALSE, TRUE>>} :
          ClientFlush(e[1], e[2])
    \/ \E k \in ForeignKeys : ForeignSet(k)
    \/ ClientResetStats

SpecBatch == InitCache /\ [][NextBatch]_vars

\* Every operation of the Cache that touches the counters, and those that
\* must not, on one logical key, with backends that fail.
NextOps ==
    \/ \E f \in Failures : ClientSet("a", [Msg |-> "v1"], f)
    \/ \E e \in BOOLEAN : ClientSetWithTTL("a", [Msg |-> "v1"], 1, e)
    \/ \E e \in BOOLEAN : ClientGet("a", e)
    \/ \E e \in BOOLEAN : ClientExists("a", e)
    \/ \E ks \in {<<"a">>, <<"a", "b">>}, e \in BOOLEAN : ClientDelete(ks, e)
    \/ \E items \in [CacheKeys -> {[Msg |-> "v1"]}] \cup BadItemMaps :
          \E applied \in {{}, {"a"}}, e \in BOOLEAN :
              ClientSetBatch(items, 1, e, applied)
    \/ \E ks \in {<<"a">>, <<"a", "b">>}, e \in BOOLEAN : ClientGetBatch(ks, e)
    \/ \E e \in {<<FALSE, FALSE>>, <<TRUE, FALSE>>, <<FALSE, TRUE>>} :
          ClientFlush(e[1], e[2])
    \/ ForeignSet("blueprint:a")
    \/ ClientResetStats

SpecOps == InitCache /\ [][NextOps]_vars

\* A Cache built by NewCacheWithOptions with any Options.MaxRetries, under
\* its direct client, with a backend that fails any number of attempts.
InitOptions ==
    /\ InitFields
    /\ wired = Constructed
    /\ retries \in {NewCacheWithOptions(m) : m \in (0 - 1)..MaxRetriesOpt}
    /\ limit = RefLimit
    /\ window = RefWindow
    /\ dbConfigured = FALSE
    /\ budget = MaxOps

NextOptions ==
    \/ \E k \in CacheKeys, v \in CacheValues, f \in 0..MaxRetriesOpt :
          ClientSet(k, v, f)
    \/ \E k \in CacheKeys : ClientGet(k, FALSE)
    \/ \E k \in CacheKeys : ClientDelete(<<k>>, FALSE)
    \/ ClientResetStats

SpecOptions == InitOptions /\ [][NextOptions]_vars

\* A handler built as a struct literal: any of the limiter, the Cache and
\* the persistent store may be nil; one client, healthy backends, any
\* elapsed time up to MaxSample.
InitStruct ==
    /\ InitFields
    /\ wired \in Wirings
    /\ limit = RefLimit
    /\ window = RefWindow
    /\ dbConfigured \in BOOLEAN
    /\ budget = MaxCalls
    /\ retries = NewCache

NextStruct ==
    \/ \E r \in {Req(""), Req("Al")} : CallStart(1, r)
    \/ RLEnter(1)
    \/ RLDecide(1)
    \/ CacheGet(1, FALSE)
    \/ Logic(1, FALSE)
    \/ CacheSet(1, FALSE)
    \/ \E d \in 0..MaxSample : Return(1, d)
    \/ Panic(1)
    \/ \E d \in 0..MaxSample : Unwind(1, d)
    \/ \E dbOk, cacheOk \in BOOLEAN : CallHealthCheck(dbOk, cacheOk)
    \/ ResetMetrics

SpecStruct == InitStruct /\ [][NextStruct]_vars

-----------------------------------------------------------------------------
\* Vocabulary of the properties.

\* Goroutine p's Call takes a step.
Starting(p)  == pc[p] = "idle" /\ pc'[p] # "idle"
Returning(p) == pc[p] = "defer" /\ pc'[p] = "idle"
Deciding(p)  == pc[p] = "rl_decide" /\ pc'[p] # "rl_decide"

\* What checkRateLimit answered in a Deciding step.
Admitted(p) == pc'[p] = "cacheget"
Rejected(p) == pc'[p] = "defer" /\ result'[p].code = "ResourceExhausted"

\* The number of admissions in log whose timestamp lies in the window of
\* length w that ends at t.
InWindow(log, t, w) ==
    Cardinality({i \in DOMAIN log : log[i] > t - w /\ log[i] <= t})

\* The entries of log after the instant t, in order.
Since(log, t) == SelectSeq(log, LAMBDA x : x > t)

Last(log) == log[Len(log)]

-----------------------------------------------------------------------------
\* Properties of the rate limiter, under SpecRL.

\* C1: for every identifier, limit L and window W: a check made when L
\* admitted checks of the identifier lie in the window ending at the check is
\* rejected; a check made when the earliest stored timestamp of the identifier
\* is no longer inside the window is admitted.
C1_WindowFullThenFree ==
    [][\A p \in Procs :
         Deciding(p) =>
           LET id == req[p].Name
           IN  /\ InWindow(admitLog[id], now[p], window) >= limit => Rejected(p)
               /\ (/\ id \in DOMAIN requests
                   /\ requests[id] # <<>>
                   /\ Head(requests[id]) <= now[p] - window) => Admitted(p)]_vars

\* C1 happens: L checks of one identifier were admitted within one window,
\* the next one was rejected, and after the window had passed the earliest
\* timestamp one more was admitted.
C1_Witness ==
    \E id \in Names :
        /\ Len(admitLog[id]) = limit + 1
        /\ admitLog[id][limit] < admitLog[id][1] + window
        /\ admitLog[id][limit + 1] >= admitLog[id][1] + window
        /\ \A o \in Names \ {id} : admitLog[o] = <<>>
        /\ completed = limit + 2

\* C2: under every interleaving of concurrent Calls the read-prune-decide-
\* append sequence is atomic: at most one goroutine is inside it, no window
\* holds more admissions of an identifier than the limit, and the stored
\* slice of an identifier holds every admitted timestamp inside the window
\* of its latest admission (none is lost to a concurrent update).
C2_AtomicLimiter ==
    /\ Cardinality({p \in Procs : pc[p] = "rl_decide"}) <= 1
    /\ \A id \in Names :
         /\ \A i \in DOMAIN admitLog[id] :
              InWindow(admitLog[id], admitLog[id][i], window) <= limit
         /\ admitLog[id] # <<>> =>
              /\ id \in DOMAIN requests
              /\ requests[id] = Since(admitLog[id], Last(admitLog[id]) - window)

\* C2 happens: two goroutines are at the limiter with the same identifier,
\* one inside the critical section and one waiting for the mutex.
C2_Witness ==
    /\ pc[1] = "rl_decide"
    /\ pc[2] = "ratelimit"
    /\ req[1].Name = req[2].Name
    /\ admitLog[req[1].Name] # <<>>
    /\ rlMu = 1

\* C3: the stored slice of every identifier has at most `limit` entries, and
\* as an admission leaves it (it is written by admissions only) it holds only
\* timestamps t with now - window < t <= now, now being the admitted instant.
C3_StoredWithinWindow ==
    \A id \in DOMAIN requests :
        /\ Len(requests[id]) <= limit
        /\ admitLog[id] # <<>>
        /\ \A i \in DOMAIN requests[id] :
             /\ requests[id][i] > Last(admitLog[id]) - window
             /\ requests[id][i] <= Last(admitLog[id])

\* C3 happens: an admission has pruned a timestamp that had left the window
\* and the slice is full again.
C3_Witness ==
    \E id \in DOMAIN requests :
        /\ Len(requests[id]) = limit
        /\ Len(admitLog[id]) > limit
        /\ limit > 1

\* The admitted Calls of name n that have not returned yet.
InFlight(n) ==
    {p \in Procs : /\ req[p].Name = n
                   /\ \/ pc[p] \in {"cacheget", "logic", "cacheset"}
                      \/ pc[p] = "defer" /\ result[p].code # "ResourceExhausted"}

\* The number of admitted Calls of name n that have returned.
CompletedFor(n) == Len(admitLog[n]) - Cardinality(InFlight(n))

\* The backend holds a live entry for Call(n) that decodes to its response.
CachedFor(n) ==
    LET k == "blueprint:call:" \o n
    IN  /\ k \in DOMAIN store
        /\ clock < store[k].exp
        /\ Unmarshal(store[k].data) =
             [ok |-> TRUE, val |-> [Msg |-> "Hello " \o n \o " from Forex Platform"]]

\* C13: with a healthy cache and within the TTL, every Call that missed the
\* cache runs the business logic once and writes the entry of its name, also
\* when another Call of the name does the same at the same time (there is no
\* de-duplication; each write replaces the entry, the last one wins); once a
\* Call that missed has returned the entry is there, and a lookup made after
\* two Calls of the name have returned is a hit that returns the response
\* without the business logic.
C13_RaceThenHit ==
    /\ [](\A p \in Procs :
            ops[p].miss = 1 =>
               \/ pc[p] = "logic" /\ ops[p].logic = 0 /\ ops[p].put = 0
               \/ pc[p] = "cacheset" /\ ops[p].logic = 1 /\ ops[p].put = 0
               \/ /\ pc[p] = "defer" /\ ops[p].logic = 1 /\ ops[p].put = 1
                  /\ ~ops[p].putErr
                  /\ CachedFor(req[p].Name))
    /\ [](\A n \in Names : CompletedFor(n) >= 1 => CachedFor(n))
    /\ [][\A p \in Procs :
            /\ (pc[p] = "cacheset" /\ pc'[p] # "cacheset") =>
                 /\ store'["blueprint:call:" \o req[p].Name].exp = clock + 10
                 /\ stats'.Sets = stats.Sets + 1
            /\ (/\ pc[p] = "cacheget" /\ pc'[p] # "cacheget"
                /\ CompletedFor(req[p].Name) >= 2) =>
                 /\ pc'[p] = "defer"
                 /\ ops'[p].hit = 1 /\ ops'[p].logic = 0 /\ ops'[p].put = 0
                 /\ result'[p] = Status("OK", "Hello " \o req[p].Name
                                               \o " from Forex Platform")]_vars

\* C13 happens: two Calls of one name both missed the empty cache and both
\* wrote the entry, and a third Call of the name, begun after both returned,
\* is about to return from a hit.
C13_Witness ==
    \E id \in Names : \E p \in Procs :
        /\ Len(admitLog[id]) = 3
        /\ \A o \in Names \ {id} : admitLog[o] = <<>>
        /\ CompletedFor(id) = 2
        /\ metrics.CacheMisses = 2
        /\ stats.Sets = 2
        /\ pc[p] = "defer" /\ req[p].Name = id /\ ops[p].hit = 1

-----------------------------------------------------------------------------
\* Properties of the pipeline with failing collaborators, under Spec.

\* The requests the precondition of Call excludes.
Invalid(r) == r.nil \/ r.Name = "" \/ Len(r.Name) > 100

\* C4: a Call whose request is nil, has an empty name or a name longer than
\* 100 goes from its start straight to its return with InvalidArgument, and
\* neither step changes the rate limiter, the cache backend, the cache
\* statistics or the CacheHits/CacheMisses counters; the limiter, the cache
\* and the business logic are not entered.
C4_InvalidStopsPipeline ==
    [][\A p \in Procs :
         LET Frame == /\ requests' = requests
                      /\ admitLog' = admitLog
                      /\ store' = store
                      /\ stats' = stats
                      /\ metrics'.CacheHits = metrics.CacheHits
                      /\ metrics'.CacheMisses = metrics.CacheMisses
         IN  /\ (Starting(p) /\ Invalid(req'[p])) =>
                  /\ pc'[p] = "defer"
                  /\ result'[p].code = "InvalidArgument"
                  /\ ops'[p] = NoOps
                  /\ Frame
             /\ (pc[p] # "idle" /\ pc'[p] # pc[p] /\ Invalid(req[p])) =>
                  /\ Returning(p)
                  /\ ops[p] = NoOps
                  /\ Frame]_vars

\* C4 happens: a Call with a name of 101 bytes is about to return
\* InvalidArgument while the limiter and the cache hold entries.
C4_Witness ==
    /\ pc[1] = "defer"
    /\ req[1] = Req(LongName)
    /\ result[1].code = "InvalidArgument"
    /\ requests # EmptyMap
    /\ store # EmptyMap

\* C5: every returned Call is counted in exactly one of SuccessfulCalls and
\* FailedCalls according to its outcome: FailedCalls is the number of Calls
\* that returned an error, SuccessfulCalls the number that returned a response.
C5_OutcomeCounted ==
    /\ metrics.FailedCalls = failed
    /\ metrics.SuccessfulCalls = completed - failed

\* C6: the metrics update runs exactly once per Call, whichever step ends it:
\* TotalRequests is the number of Calls returned since construction or the
\* last ResetMetrics.
C6_TotalCountsEveryCall ==
    metrics.TotalRequests = completed

\* C6 happens: every Call of the run has returned, one from a cache hit and
\* one with an error.
C6_Witness ==
    /\ completed = MaxCalls
    /\ failed >= 1
    /\ metrics.CacheHits >= 1

\* C9: a Call that hits the cache returns the cached response at once: it is
\* at its return with a response, has not run the business logic, has not
\* queried the persistent store and has not written the cache; and no Call
\* queries the persistent store more than once.
C9_HitSkipsLogic ==
    \A p \in Procs :
        /\ ops[p].db <= 1
        /\ ops[p].hit > 0 =>
             /\ pc[p] = "defer"
             /\ result[p].code = "OK"
             /\ ops[p].get = 1
             /\ ops[p].logic = 0
             /\ ops[p].db = 0
             /\ ops[p].put = 0

\* C9 happens: with a persistent store configured, a Call has hit the cache.
C9_Witness ==
    /\ dbConfigured
    /\ ops[1].hit = 1
    /\ pc[1] = "defer"

\* C10: cache failures never fail a request: a valid, admitted Call whose
\* bounded context is still live returns the computed response, whatever the
\* cache lookup and the cache write did.
C10_CacheNeverFatal ==
    \A p \in Procs :
        (/\ pc[p] = "defer"
         /\ ~Invalid(req[p])
         /\ result[p].code # "ResourceExhausted"
         /\ ctx[p] = "live") =>
            /\ result[p].code = "OK"
            /\ result[p].msg = "Hello " \o req[p].Name \o " from Forex Platform"

\* The status codes that tell the caller its deadline passed or its request
\* was cancelled.
TimeoutClass == {"DeadlineExceeded", "Canceled"}

\* C11: when the bounded context of a Call is done as a downstream step (the
\* cache lookup, the business logic, the cache write) runs, the Call ends and
\* hands a timeout-class error to its caller.
C11_ExpiredSurfacesTimeout ==
    [][\A p \in Procs :
         (/\ pc[p] \in {"cacheget", "logic", "cacheset"}
          /\ Done(p)
          /\ pc'[p] = "defer") => result'[p].code \in TimeoutClass]_vars

\* C12: a failed query of the persistent store does not fail the Call: the
\* Call goes on to the cache write, attempts it once and returns the computed
\* response.
C12_StoreFailureNonFatal ==
    \A p \in Procs :
        ops[p].dbErr =>
            /\ pc[p] \in {"cacheset", "defer"}
            /\ ops[p].miss = 1
            /\ pc[p] = "defer" =>
                 /\ ops[p].put = 1
                 /\ result[p] = Status("OK", "Hello " \o req[p].Name \o " from Forex Platform")

\* C12 happens: the store query failed, the response was cached and the Call
\* is about to return it.
C12_Witness ==
    /\ pc[1] = "defer"
    /\ ops[1].dbErr
    /\ ctx[1] = "live"
    /\ ops[1].put = 1
    /\ ~ops[1].putErr
    /\ result[1].code = "OK"
    /\ Live(createKey(cacheKey(req[1].Name)))

\* C10 happens: the lookup found an undecodable payload, the write failed,
\* the context is live and the Call is about to return.
C10_Witness ==
    /\ pc[1] = "defer"
    /\ ctx[1] = "live"
    /\ ops[1].getErr = "decode"
    /\ ops[1].putErr

-----------------------------------------------------------------------------
\* Properties of the reference deployment, under SpecRef.

\* C7: with limit 100 and window 60 s (2 units), a check made when 100
\* admitted Calls of the name lie in the window is rejected, so the 101st
\* Call within 60 s ends with ResourceExhausted; and a rate-limited Call has
\* made no cache lookup, run no business logic and written no cache entry
\* when it returns, its return changing neither the backend nor the
\* cache statistics.
C7_HundredFirstRejected ==
    [][\A p \in Procs :
         /\ (Deciding(p) /\ InWindow(admitLog[req[p].Name], now[p], 2) >= 100) =>
              Rejected(p)
         /\ result'[p].code = "ResourceExhausted" =>
              /\ pc'[p] = "defer"
              /\ ops'[p].get = 0 /\ ops'[p].hit = 0 /\ ops'[p].miss = 0
              /\ ops'[p].logic = 0 /\ ops'[p].db = 0 /\ ops'[p].put = 0
         /\ (Returning(p) /\ result[p].code = "ResourceExhausted") =>
              store' = store /\ stats' = stats]_vars

\* C7 happens: 100 Calls were admitted, the first at 0 s and the last at
\* 30 s, and the 101st is about to return ResourceExhausted at 30 s.
C7_Witness ==
    /\ Len(admitLog["Al"]) = 100
    /\ admitLog["Al"][1] = 0
    /\ admitLog["Al"][100] = 1
    /\ completed = 100
    /\ clock = 1
    /\ pc[1] = "defer"
    /\ result[1].code = "ResourceExhausted"

\* C8: from an empty cache and zeroed metrics, the first Call(name) returns
\* "Hello <name> from Forex Platform", leaves that response in the cache under
\* the logical key "call:<name>" and the metrics at TotalRequests = 1,
\* CacheMisses = 1; the second Call(name) returns the same message from the
\* cache without running the business logic, and CacheHits becomes 1.
C8_EndToEnd ==
    LET msg == "Hello Al from Forex Platform"
        key == "blueprint:call:Al"
        Cached == /\ key \in DOMAIN store
                  /\ clock < store[key].exp
                  /\ Unmarshal(store[key].data) = [ok |-> TRUE, val |-> [Msg |-> msg]]
    IN  /\ (completed = 0 /\ pc[1] = "defer") =>
             /\ result[1] = Status("OK", msg)
             /\ ops[1].miss = 1 /\ ops[1].logic = 1
             /\ Cached
        /\ (completed = 1 /\ pc[1] \in {"idle", "ratelimit", "rl_decide", "cacheget"}) =>
             /\ Cached
             /\ metrics.TotalRequests = 1
             /\ metrics.CacheMisses = 1
             /\ metrics.CacheHits = 0
        /\ (completed = 1 /\ pc[1] = "defer") =>
             /\ result[1] = Status("OK", msg)
             /\ ops[1].hit = 1 /\ ops[1].logic = 0
             /\ metrics.CacheHits = 1
        /\ (completed = 2 /\ pc[1] \in {"idle", "ratelimit", "rl_decide", "cacheget"}) =>
             /\ metrics.TotalRequests = 2
             /\ metrics.CacheHits = 1
             /\ metrics.CacheMisses = 1

\* C8 happens: the second Call has returned after a hit.
C8_Witness ==
    /\ completed = 2
    /\ pc[1] = "idle"
    /\ metrics.TotalRequests = 2
    /\ metrics.CacheHits = 1
    /\ metrics.CacheMisses = 1
-----------------------------------------------------------------------------
\* Properties of the Cache under its direct client, under SpecCache and SpecStats.

\* The step is a call op of the client.
Calls(op) == budget' = budget - 1 /\ last'.op = op

C15_TTLExpiry ==
    [][\A k \in CacheKeys :
         LET fullKey == "blueprint:" \o k
         IN  /\ (/\ Calls("Exists") /\ last'.keys = <<k>>
                 /\ last.op = "SetWithTTL" /\ last.keys = <<k>> /\ last.err = "nil"
                 /\ store[fullKey].exp = clock + last.ttl) =>
                    last'.err = "nil" /\ last'.found
             /\ (/\ Calls("Get") /\ last'.keys = <<k>>
                 /\ fullKey \in DOMAIN store
                 /\ clock > store[fullKey].exp
                 /\ last'.err # "backend") =>
                    /\ last'.err = "notfound"
                    /\ stats'.Misses = stats.Misses + 1
                    /\ stats'.Hits = stats.Hits]_vars

\* C15 happens: a Get has just failed with not-found on a key that was
\* written with a ttl and had outlived it.
C15_Witness ==
    \E k \in CacheKeys :
        /\ last.op = "Get" /\ last.keys = <<k>> /\ last.err = "notfound"
        /\ createKey(k) \in DOMAIN store
        /\ store[createKey(k)].exp < clock
        /\ stats.Misses >= 1

\* C16: as long as every call since ResetStats (or construction) was a
\* write that succeeded, a Get of a key the backend held, a Get of a key it
\* did not hold or a Delete that succeeded, the statistics are the numbers
\* of those calls: Sets = N, Hits = M, Misses = K, Deletes = D.
C16_StatsConsistent ==
    ~tally.other =>
        /\ stats.Sets = tally.sets
        /\ stats.Hits = tally.hits
        /\ stats.Misses = tally.misses
        /\ stats.Deletes = tally.deletes

\* C16 happens: a run with a set, a hit, a miss and a delete, all successful.
C16_Witness ==
    /\ ~tally.other
    /\ tally.sets >= 1 /\ tally.hits >= 1 /\ tally.misses >= 1
    /\ tally.deletes >= 1

\* C17: a Delete of n >= 1 keys whose backend round trip completes adds n
\* to the `deletes` counter.
C17_DeletesCountKeys ==
    [][(Calls("Delete") /\ Len(last'.keys) >= 1 /\ last'.err # "backend") =>
          stats'.Deletes = stats.Deletes + Len(last'.keys)]_vars

\* C18: a Delete of one key the backend does not hold returns no error and
\* adds at most one to the `deletes` counter.
C18_DeleteIdempotent ==
    [][(/\ Calls("Delete") /\ Len(last'.keys) = 1 /\ last'.live = {}
        /\ last'.err # "backend") =>
          /\ last'.err = "nil"
          /\ stats'.Deletes <= stats.Deletes + 1]_vars

\* What C19 says of a Delete step whose round trip completes, for the key
\* lists in Lists: fewer deletions than keys give the partial-delete error,
\* not the error of a failed round trip, and the keys that were held are gone;
\* when every key was held there is no error and no key is held afterwards.
PartialOrComplete(Lists) ==
    (Calls("Delete") /\ last'.keys \in Lists /\ last'.keys # <<>>) =>
        LET keys == last'.keys
            held == last'.live
            gone == \A k \in Range(keys) : "blueprint:" \o k \notin DOMAIN store'
        IN  /\ (last'.err # "backend" /\ Cardinality(held) < Len(keys)) =>
                   last'.err = "partial" /\ gone
            /\ last'.err = "backend" => store' = store /\ stats' = stats
            /\ (last'.err # "backend" /\ Range(keys) = held) =>
                   last'.err = "nil" /\ gone

\* C19 as stated: for every list of keys.
C19_PartialDelete == [][PartialOrComplete(KeyLists)]_vars

\* C19 for lists that name no key twice.
C19_PartialDeleteDistinctKeys ==
    [][PartialOrComplete({ks \in KeyLists : Cardinality(Range(ks)) = Len(ks)})]_vars

\* C19 happens: a Delete of two keys, one of them held, has returned the
\* partial-delete error and neither key is held any more.
C19_Witness ==
    /\ last.op = "Delete" /\ last.err = "partial"
    /\ Len(last.keys) = 2 /\ Cardinality(last.live) = 1
    /\ \A k \in Range(last.keys) : createKey(k) \notin DOMAIN store
    /\ stats.Sets >= 1

\* C20: Set makes at most 3 attempts; when the backend fails fewer than 3
\* in a row Set stops at the first attempt that succeeds, returns nil, has
\* written the entry and adds one to `sets`; when 3 attempts in a row fail
\* it returns an error after exactly 3 and leaves backend and statistics
\* as they were.
C20_SetRetries ==
    [][Calls("Set") =>
          /\ last'.attempts <= 3
          /\ last'.fails < 3 =>
               /\ last'.err = "nil"
               /\ last'.attempts = last'.fails + 1
               /\ stats' = [stats EXCEPT !.Sets = @ + 1]
               /\ Unmarshal(store'["blueprint:" \o last'.keys[1]].data)
                    = [ok |-> TRUE, val |-> last'.value]
          /\ last'.fails >= 3 =>
               /\ last'.err # "nil"
               /\ last'.attempts = 3
               /\ stats' = stats
               /\ store' = store]_vars

\* C20 happens: a Set whose first two attempts failed has succeeded at the
\* third, after a Set that failed for good.
C20_Witness ==
    /\ last.op = "Set" /\ last.err = "nil"
    /\ last.fails = 2 /\ last.attempts = 3
    /\ tally.other /\ stats.Sets = 1

\* C21: a Get of a key the backend does not hold fails with the not-found
\* error, adds one to `misses` and leaves `hits`; a Get of a key it holds
\* with a decodable payload returns nil, adds one to `hits` and leaves
\* `misses`; a Get whose fetch fails for another reason than absence changes
\* neither counter.
C21_GetCounts ==
    [][\A k \in CacheKeys :
         (Calls("Get") /\ last'.keys = <<k>>) =>
            /\ stats'.Sets = stats.Sets /\ stats'.Deletes = stats.Deletes
            /\ CASE last'.err = "backend" ->
                       stats'.Hits = stats.Hits /\ stats'.Misses = stats.Misses
                 [] "blueprint:" \o k \notin DOMAIN store ->
                       /\ last'.err = "notfound"
                       /\ stats'.Misses = stats.Misses + 1
                       /\ stats'.Hits = stats.Hits
                 [] OTHER ->
                       /\ last'.err = "nil"
                       /\ stats'.Hits = stats.Hits + 1
                       /\ stats'.Misses = stats.Misses]_vars

\* C21 happens: after a hit and a miss, a Get has failed on the backend and
\* the counters still show one hit and one miss.
C21_Witness ==
    /\ last.op = "Get" /\ last.err = "backend"
    /\ budget = MaxOps - 4
    /\ stats.Hits = 1 /\ stats.Misses = 1
    /\ tally.hits = 1 /\ tally.misses = 1

\* C22: a lookup whose fetch succeeds and whose payload does not decode
\* returns the decoding error and counts as a hit: `hits` grows by one,
\* `misses` does not change.
C22_DecodeFailureIsHit ==
    [][\A p \in Procs :
         (pc[p] = "cacheget" /\ pc'[p] # "cacheget" /\ ops'[p].getErr = "decode") =>
            /\ stats'.Hits = stats.Hits + 1
            /\ stats'.Misses = stats.Misses]_vars
\* C23: a SetBatch of n items whose pipeline succeeds adds exactly n to
\* `sets`; a SetBatch whose pipeline fails leaves `sets` (and every other
\* counter) unchanged, whatever part of the writes the backend applied.
C23_SetBatchCounts ==
    [][Calls("SetBatch") =>
         LET n == Cardinality(DOMAIN last'.value)
         IN  IF last'.err = NoErr
             THEN stats' = [stats EXCEPT !.Sets = stats.Sets + n]
             ELSE stats' = stats]_vars

\* C23 happens: the first operation was a SetBatch of two items whose
\* pipeline failed after the backend applied one of the writes, and `sets`
\* is still zero.
C23_Witness ==
    /\ last.op = "SetBatch"
    /\ last.err = "backend"
    /\ budget = MaxOps - 1
    /\ DOMAIN last.value = CacheKeys
    /\ \E k \in CacheKeys :
          /\ Live(createKey(k))
          /\ store[createKey(k)].data = Marshal(last.value[k])
    /\ stats.Sets = 0

\* C24: a GetBatch whose pipeline does not fail returns no error, whatever
\* part of the requested keys is present; after it, every requested key is
\* in the destination mapping or was one of the misses, and hits + misses
\* has grown by the number of keys requested.
C24_GetBatchAccountsForEveryKey ==
    [][Calls("GetBatch") /\ last'.err = NoErr =>
         LET keys == last'.keys
         IN  /\ \A i \in DOMAIN keys :
                   keys[i] \in DOMAIN last'.val \/ ~Live(createKey(keys[i]))
             /\ (stats'.Hits + stats'.Misses)
                   = (stats.Hits + stats.Misses) + Len(keys)]_vars

\* The full keys of the form <prefix>:<anything> the backend can hold.
UnderPrefix ==
    {defaultPrefix \o ":" \o x : x \in CacheKeys}
        \cup {k \in ForeignKeys : \E x \in CacheKeys : k = defaultPrefix \o ":" \o x}

\* C25: a Flush that returns no error leaves no key of the form
\* <prefix>:<anything> in the backend; every Flush, failed or not, leaves the
\* keys outside the prefix as they were and changes no statistic.
C25_FlushFrame ==
    [][Calls("Flush") =>
         /\ last'.err = NoErr => \A k \in UnderPrefix : ~(Live(k))'
         /\ \A k \in DOMAIN store \ UnderPrefix :
               k \in DOMAIN store' /\ store'[k] = store[k]
         /\ stats' = stats]_vars

\* C25 happens: a Flush has returned no error on a backend that held keys
\* under the prefix and still holds the two keys outside it, with counters
\* that are not zero.
C25_Witness ==
    /\ last.op = "Flush"
    /\ last.err = NoErr
    /\ last.live # {}
    /\ {"blueprints:b", "other:a"} \subseteq DOMAIN store
    /\ stats.Sets > 0

\* C26: HealthCheck returns nil exactly when the probe of every configured
\* collaborator succeeds, a collaborator that is not configured counting as
\* success; a failing probe of a configured collaborator gives an error.
C26_HealthCheck ==
    health.called =>
        (health.err = NoErr <=> /\ dbConfigured => health.dbOk
                                /\ wired.Cache => health.cacheOk)

\* C26 happens: with both collaborators configured the store answered, the
\* cache did not, and HealthCheck returned the cache error.
C26_Witness ==
    /\ health.called
    /\ dbConfigured /\ wired.Cache
    /\ health.dbOk /\ ~health.cacheOk
    /\ health.err = "cache connection failed"

\* C27: each time a duration is recorded, the average becomes that duration
\* when nothing has been recorded since construction or the last
\* ResetMetrics, and (average + duration) / 2, rounded down, otherwise;
\* durations of zero included.
C27_RunningAverage ==
    [][metrics'.TotalRequests = metrics.TotalRequests + 1 =>
         metrics'.AvgResponseTime =
             IF metrics.TotalRequests = 0
             THEN elapsed'
             ELSE (metrics.AvgResponseTime + elapsed') \div 2]_vars

\* C28: on a handler built as &Blueprint{Log: log}, a Call with a valid name
\* does not panic, and what it returns is the response "Hello " + name.
C28_BareCallSaysHello ==
    (wired = Bare /\ ~dbConfigured) =>
        \A p \in Procs :
            /\ pc[p] \notin {"panic", "crashed"}
            /\ (pc[p] = "defer" /\ ~Invalid(req[p])) =>
                   result[p] = Status("OK", "Hello " \o req[p].Name)

\* The four counters of CacheStats.
Counters == {"Hits", "Misses", "Sets", "Deletes"}

C30_RejectedRecordsNothing ==
    [][\A p \in Procs :
         Deciding(p) =>
           LET id == req[p].Name
               stored == IF id \in DOMAIN requests THEN requests[id] ELSE <<>>
               inWindow == {i \in DOMAIN stored : stored[i] > now[p] - window}
           IN  /\ Cardinality(inWindow) >= limit => Rejected(p)
               /\ Rejected(p) => /\ requests' = requests
                                 /\ admitLog' = admitLog]_vars

\* C30 happens: after a rejected Call of the identifier has returned, a
\* second one has been rejected at a later instant than the admissions, and
\* the stored sequence still is the `limit` admitted timestamps.
C30_Witness ==
    \E p \in Procs :
        LET id == req[p].Name
        IN  /\ pc[p] = "defer"
            /\ result[p].code = "ResourceExhausted"
            /\ failed >= 1
            /\ \A o \in Names \ {id} : admitLog[o] = <<>>
            /\ id \in DOMAIN requests
            /\ requests[id] = admitLog[id]
            /\ Len(requests[id]) = limit
            /\ clock > Last(admitLog[id])

\* C31: a check at the instant `now` counts the stored timestamps t with
\* t > now - window and no others: it admits exactly when fewer than `limit`
\* of them are stored, and the slice an admission leaves is those
\* timestamps, in order, followed by `now`. A timestamp equal to
\* now - window is dropped; one a unit later is kept.
C31_StrictPruning ==
    [][\A p \in Procs :
         Deciding(p) =>
           LET id == req[p].Name
               stored == IF id \in DOMAIN requests THEN requests[id] ELSE <<>>
               kept == {i \in DOMAIN stored : stored[i] >= now[p] - window + 1}
           IN  /\ Admitted(p) <=> Cardinality(kept) < limit
               /\ Admitted(p) =>
                    /\ Len(requests'[id]) = Cardinality(kept) + 1
                    /\ Last(requests'[id]) = now[p]
                    /\ \A i \in DOMAIN stored :
                         i \in kept <=>
                           \E j \in 1..Cardinality(kept) :
                               requests'[id][j] = stored[i]]_vars

\* C31 happens: with the slice full, a check made exactly one window after
\* the earliest stored timestamp was admitted, that timestamp is gone from
\* the slice and a later one is still there.
C31_Witness ==
    \E id \in Names :
        /\ limit > 1
        /\ Len(admitLog[id]) = limit + 1
        /\ admitLog[id][limit + 1] = admitLog[id][1] + window
        /\ admitLog[id][2] > admitLog[id][1]
        /\ requests[id] = SubSeq(admitLog[id], 2, limit + 1)

C35_SuccessMeansWritten ==
    [][(Calls("Set") /\ last'.err = NoErr) =>
         LET k == "blueprint:" \o last'.keys[1]
         IN  /\ last'.attempts >= 1
             /\ k \in DOMAIN store'
             /\ Unmarshal(store'[k].data) = [ok |-> TRUE, val |-> last'.value]]_vars

\* C33: while no ResetMetrics is made, every snapshot GetMetrics can return
\* has CacheHits + CacheMisses <= TotalRequests, whatever the concurrent
\* Calls are doing.
C33_LookupsWithinTotal ==
    metrics.CacheHits + metrics.CacheMisses <= metrics.TotalRequests

\* C34: every cache lookup of Call moves the handler's CacheHits as it moves
\* the Hits of the Cache, and the handler's CacheMisses as the Misses of the
\* Cache, so that counters reset together stay equal; lookups that fail on
\* the backend or on decoding included.
C34_MetricsAgreeWithStats ==
    [][\A p \in Procs :
         (pc[p] = "cacheget" /\ pc'[p] # "cacheget") =>
            /\ metrics'.CacheHits - metrics.CacheHits = stats'.Hits - stats.Hits
            /\ metrics'.CacheMisses - metrics.CacheMisses
                 = stats'.Misses - stats.Misses]_vars

\* C37: the stored timestamps change in the deciding step of an admitted
\* Call and in no other step: a Call with an invalid request returns without
\* reaching the limiter, a rejected check stores nothing, an admitted check
\* makes the timestamps of its name inside the window one more, and nothing
\* a Call does afterwards (a cache hit, a failure, its return) gives the
\* timestamp back; so once `limit` admitted Calls of a name, cache hits
\* included, lie in the window, the next one is rejected.
C37_QuotaByAdmission ==
    [][/\ \A p \in Procs :
            /\ (Starting(p) /\ Invalid(req'[p])) =>
                  pc'[p] = "defer" /\ ops'[p].rl = 0
            /\ (Deciding(p) /\ Rejected(p)) => requests' = requests
            /\ (Deciding(p) /\ Admitted(p)) =>
                  LET id == req[p].Name
                      stored == IF id \in DOMAIN requests
                                THEN requests[id] ELSE <<>>
                  IN  /\ InWindow(requests'[id], now[p], window)
                           = InWindow(stored, now[p], window) + 1
                      /\ \A o \in DOMAIN requests \ {id} :
                           requests'[o] = requests[o]
            /\ (/\ Deciding(p)
                /\ InWindow(admitLog[req[p].Name], now[p], window) >= limit) =>
                  Rejected(p)
       /\ (\A p \in Procs : ~Deciding(p)) => requests' = requests]_vars

\* C37 happens: with limit 2, a Call of the name was served from the cache,
\* and the third Call of the name is rejected although only one Call ran
\* the business logic.
C37_Witness ==
    \E p \in Procs :
        /\ limit = 2
        /\ pc[p] = "defer"
        /\ result[p].code = "ResourceExhausted"
        /\ metrics.CacheHits = 1
        /\ metrics.CacheMisses = 1
        /\ metrics.TotalRequests = 2
        /\ Len(admitLog[req[p].Name]) = 2

\* C38: a SetBatch one of whose items does not serialize returns the
\* encoding error, leaves the backend as it was (no item of the batch is
\* written) and changes no counter.
C38_BatchEncodingError ==
    [][(/\ Calls("SetBatch")
        /\ \E k \in DOMAIN last'.value : last'.value[k] = Unserializable) =>
          /\ last'.err = "marshal"
          /\ store' = store
          /\ stats' = stats]_vars

\* C38 happens: a SetBatch of a good item under "a" and an item that does
\* not serialize under "b" has returned the encoding error, and the backend
\* holds nothing under the key of "a".
C38_Witness ==
    /\ last.op = "SetBatch"
    /\ last.err = "marshal"
    /\ last.value["a"] = [Msg |-> "v1"]
    /\ last.value["b"] = Unserializable
    /\ "blueprint:a" \notin DOMAIN store
    /\ stats.Sets = 0


-----------------------------------------------------------------------------
\* The Logger (src/pkg/errors/errors.go): a Logger holds a mutex of its own
\* and a reference to a field map.  loggers[l] is the map Logger l refers
\* to, fields[m] the contents of map m, logMu[l] the holder of l.mu.

MaxLoggers == 4    \* Loggers on the heap in one run of SpecLog

\* The maps handed to WithFields: the two fields Call adds at lines 86-89,
\* and the single field WithError adds.
FieldArgs == {[method |-> "Blueprint.Call", name |-> "a"], [error |-> "e"]}

\* The fields WithContext takes from the context.
ContextArgs ==
    {EmptyMap, [trace_id |-> "t"], [trace_id |-> "t", user_id |-> "u"]}

\* m with every entry of arg assigned into it.
Assign(m, arg) ==
    [k \in DOMAIN m \cup DOMAIN arg |-> IF k \in DOMAIN arg THEN arg[k] ELSE m[k]]

\* Logger.GetFields: a copy of the map the Logger refers to.
GetFields(l) == fields[loggers[l]]

\* No unsynchronised map access has taken the process down.
LogUp == \A p \in Procs : lpc[p].at # "fatal"

\* The Loggers allocated, with those the calls in flight are about to allocate.
Allocating == Len(loggers) + Cardinality({p \in Procs : lpc[p].at # "idle"})

\* Another goroutine is inside the write section of WithFields on the map
\* goroutine p is writing: it holds the mutex of another Logger.
Racing(p) ==
    \E q \in Procs \ {p} :
        /\ lpc[q].at = "write"
        /\ loggers[lpc[q].l] = loggers[lpc[p].l]

\* What a map can hold after an unsynchronised write of arg: any part of the
\* assignments may have taken effect.
Torn(m, arg) ==
    {Assign(m, [k \in ks |-> arg[k]]) : ks \in SUBSET DOMAIN arg}

\* WithField / WithFields / WithError, l.mu.Lock().
WithFieldsLock(p, l, arg) ==
    /\ LogUp
    /\ lpc[p] = Outside
    /\ l \in DOMAIN loggers
    /\ logMu[l] = NoProc
    /\ Allocating < MaxLoggers
    /\ logMu' = [logMu EXCEPT ![l] = p]
    /\ lpc' = [lpc EXCEPT ![p] = [at |-> "write", l |-> l, arg |-> arg,
                                  before |-> GetFields(l)]]
    /\ UNCHANGED <<loggers, fields>>
    /\ UNCHANGED <<clock, store, stats, budget, clientVars, retries, lockVars,
                   handlerVars>>

\* The assignments l.fields[k] = v.  Two goroutines writing one map under
\* different mutexes race: the map keeps any part of the writes, or the
\* runtime stops the process (fatal error: concurrent map writes).
WithFieldsWrite(p) ==
    /\ LogUp
    /\ lpc[p].at = "write"
    /\ LET m == loggers[lpc[p].l]
       IN  IF Racing(p)
           THEN \/ \E g \in Torn(fields[m], lpc[p].arg) :
                      /\ fields' = [fields EXCEPT ![m] = g]
                      /\ lpc' = [lpc EXCEPT ![p].at = "derive"]
                \/ /\ lpc' = [lpc EXCEPT ![p].at = "fatal"]
                   /\ UNCHANGED fields
           ELSE /\ fields' = [fields EXCEPT ![m] = Assign(fields[m], lpc[p].arg)]
                /\ lpc' = [lpc EXCEPT ![p].at = "derive"]
    /\ UNCHANGED <<loggers, logMu>>
    /\ UNCHANGED <<clock, store, stats, budget, clientVars, retries, lockVars,
                   handlerVars>>

\* The returned Logger refers to l.fields; the deferred l.mu.Unlock().
WithFieldsReturn(p) ==
    /\ LogUp
    /\ lpc[p].at = "derive"
    /\ loggers' = Append(loggers, loggers[lpc[p].l])
    /\ logMu' = Append([logMu EXCEPT ![lpc[p].l] = NoProc], NoProc)
    /\ lpc' = [lpc EXCEPT ![p] = Outside]
    /\ UNCHANGED fields
    /\ UNCHANGED <<clock, store, stats, budget, clientVars, retries, lockVars,
                   handlerVars>>

\* WithContext: a Logger with a map of its own, holding the fields found in
\* the context.  The intermediate Loggers are reachable by nobody else.
WithContext(p, arg) ==
    /\ LogUp
    /\ lpc[p] = Outside
    /\ Allocating < MaxLoggers
    /\ fields' = Append(fields, arg)
    /\ loggers' = Append(loggers, Len(fields) + 1)
    /\ logMu' = Append(logMu, NoProc)
    /\ UNCHANGED lpc
    /\ UNCHANGED <<clock, store, stats, budget, clientVars, retries, lockVars,
                   handlerVars>>

\* The Logger alone: goroutines derive Loggers from any Logger made so far.
NextLog ==
    \/ \E p \in Procs, l \in 1..MaxLoggers, arg \in FieldArgs :
           WithFieldsLock(p, l, arg)
    \/ \E p \in Procs : WithFieldsWrite(p)
    \/ \E p \in Procs : WithFieldsReturn(p)
    \/ \E p \in Procs, arg \in ContextArgs : WithContext(p, arg)

InitLog ==
    /\ InitCommon
    /\ limit = RefLimit
    /\ window = RefWindow
    /\ dbConfigured = FALSE
    /\ budget = 0

SpecLog == InitLog /\ [][NextLog]_vars

\* C39: a Logger's field map is written only under the mutex every other
\* reader and writer of that map uses: no two goroutines are inside the
\* write section of WithFields on one map at once, a derived Logger does not
\* refer to its parent's map, and deriving leaves the parent's GetFields
\* result as it was.
C39_FieldMapUnderOneMutex ==
    [][/\ \A p, q \in Procs :
              (p # q /\ lpc'[p].at = "write" /\ lpc'[q].at = "write")
                  => loggers'[lpc'[p].l] # loggers'[lpc'[q].l]
       /\ \A p \in Procs :
              (lpc[p].at = "derive" /\ lpc'[p] = Outside)
                  => /\ loggers'[Len(loggers')] # loggers[lpc[p].l]
                     /\ GetFields(lpc[p].l)' = lpc[p].before]_vars


-----------------------------------------------------------------------------
\* The locks.  Every operation is read as the sequence of lock and backend
\* events it performs; script[p] holds the events goroutine p still has
\* ahead.  The locks: "rl" is RateLimiter.mu (rlMu), "mu" is Blueprint.mu,
\* "stats" is Cache.mu (statsMu), "log" is the mutex of b.Log (logMu[1]).

MaxInvokes == 3    \* operations started in one run of SpecLocks

LockEv(x)    == [op |-> "Lock", on |-> x]
UnlockEv(x)  == [op |-> "Unlock", on |-> x]
RLockEv(x)   == [op |-> "RLock", on |-> x]
RUnlockEv(x) == [op |-> "RUnlock", on |-> x]
BackendEv    == [op |-> "Backend", on |-> "none"]

\* checkRateLimit with the release dropped.
checkRateLimitKeepsLock == <<LockEv("rl")>>

\* checkRateLimit: lines 150-151, the whole body runs under the mutex.
checkRateLimitScript == <<LockEv("rl"), UnlockEv("rl")>>

\* recordMetrics, incrementCacheHit, incrementCacheMiss, ResetMetrics.
recordMetricsScript       == <<LockEv("mu"), UnlockEv("mu")>>
incrementCacheHitScript   == <<LockEv("mu"), UnlockEv("mu")>>
incrementCacheMissScript  == <<LockEv("mu"), UnlockEv("mu")>>
ResetMetricsScript        == <<LockEv("mu"), UnlockEv("mu")>>
GetMetricsScript          == <<RLockEv("mu"), RUnlockEv("mu")>>

\* incrementStatsBy, ResetStats, GetStats.
incrementStatsScript == <<LockEv("stats"), UnlockEv("stats")>>
ResetStatsScript     == <<LockEv("stats"), UnlockEv("stats")>>
GetStatsScript       == <<RLockEv("stats"), RUnlockEv("stats")>>

\* b.Log.WithFields / b.Log.WithError.
LogScript == <<LockEv("log"), UnlockEv("log")>>

\* Cache.Get: the GET, then a counter for a hit or for redis.Nil only.
GetOutcomes == {"hit", "notfound", "error"}
GetScript(got) ==
    <<BackendEv>> \o (IF got \in {"hit", "notfound"} THEN incrementStatsScript
                      ELSE <<>>)

\* processBusinessLogic: the query when b.DB is not nil, a warning when it fails.
processBusinessLogicScript(db, dbOk) ==
    IF db THEN <<BackendEv>> \o (IF dbOk THEN <<>> ELSE LogScript) ELSE <<>>

\* Cache.SetWithTTL as Call uses it: the SETEX, then the counter on success,
\* the warning of line 111 on failure.
SetWithTTLScript(setOk) ==
    <<BackendEv>> \o (IF setOk THEN incrementStatsScript ELSE LogScript)

\* Call, by the path it takes; the deferred recordMetrics closes every path.
CallScript(valid, admitted, got, done, db, dbOk, setOk) ==
    (IF ~valid THEN LogScript
     ELSE checkRateLimitScript \o
          (IF ~admitted THEN <<>>
           ELSE LogScript \o GetScript(got) \o
                (IF got = "hit" THEN incrementCacheHitScript
                 ELSE incrementCacheMissScript \o
                      (IF done THEN LogScript
                       ELSE processBusinessLogicScript(db, dbOk) \o
                            SetWithTTLScript(setOk)))))
    \o recordMetricsScript

CallScripts ==
    {CallScript(valid, admitted, got, done, db, dbOk, setOk) :
         valid \in BOOLEAN, admitted \in BOOLEAN, got \in GetOutcomes,
         done \in BOOLEAN, db \in BOOLEAN, dbOk \in BOOLEAN, setOk \in BOOLEAN}

\* The operations goroutines invoke concurrently.
OpScripts ==
    CallScripts \cup {GetMetricsScript, ResetMetricsScript, GetStatsScript,
                      ResetStatsScript}

\* The locks of the handler and the Cache that goroutine p holds.
Held(p) ==
    {x \in {"rl"} : rlMu = p}
        \cup {x \in {"mu"} : mu.w = p \/ p \in mu.r}
        \cup {x \in {"stats"} : statsMu.w = p \/ p \in statsMu.r}

\* sync.RWMutex: Lock needs no holder at all, RLock no writer.
Grantable(rw, op) ==
    IF op = "Lock" THEN rw = Unlocked ELSE rw.w = NoProc

\* The acquisition e can return now.
Available(e) ==
    CASE e.on = "rl"    -> rlMu = NoProc
      [] e.on = "mu"    -> Grantable(mu, e.op)
      [] e.on = "stats" -> Grantable(statsMu, e.op)
      [] e.on = "log"   -> logMu[1] = NoProc

Acquired(rw, p, op) ==
    IF op = "Lock" THEN [rw EXCEPT !.w = p] ELSE [rw EXCEPT !.r = @ \cup {p}]

Released(rw, p, op) ==
    IF op = "Unlock" THEN [rw EXCEPT !.w = NoProc] ELSE [rw EXCEPT !.r = @ \ {p}]

\* A goroutine starts one of the operations.
Invoke(p, sc) ==
    /\ script[p] = <<>>
    /\ budget > 0
    /\ budget' = budget - 1
    /\ script' = [script EXCEPT ![p] = sc]
    /\ UNCHANGED <<rlMu, mu, statsMu, logMu>>
    /\ UNCHANGED <<clock, limit, window, requests, metrics, store, stats,
                   dbConfigured, pc, req, now, snap, ctx, result, ops,
                   completed, failed, admitLog, clientVars, retries, wired,
                   health, elapsed, loggers, fields, lpc>>

\* Lock() or RLock() returns.
Acquire(p) ==
    /\ script[p] # <<>>
    /\ LET e == Head(script[p])
       IN  /\ e.op \in {"Lock", "RLock"}
           /\ Available(e)
           /\ rlMu' = IF e.on = "rl" THEN p ELSE rlMu
           /\ mu' = IF e.on = "mu" THEN Acquired(mu, p, e.op) ELSE mu
           /\ statsMu' = IF e.on = "stats" THEN Acquired(statsMu, p, e.op)
                         ELSE statsMu
           /\ logMu' = IF e.on = "log" THEN [logMu EXCEPT ![1] = p] ELSE logMu
    /\ script' = [script EXCEPT ![p] = Tail(@)]
    /\ UNCHANGED <<clock, limit, window, requests, metrics, store, stats,
                   dbConfigured, budget, pc, req, now, snap, ctx, result, ops,
                   completed, failed, admitLog, clientVars, retries, wired,
                   health, elapsed, loggers, fields, lpc>>

\* The deferred Unlock() or RUnlock().
Release(p) ==
    /\ script[p] # <<>>
    /\ LET e == Head(script[p])
       IN  /\ e.op \in {"Unlock", "RUnlock"}
           /\ rlMu' = IF e.on = "rl" THEN NoProc ELSE rlMu
           /\ mu' = IF e.on = "mu" THEN Released(mu, p, e.op) ELSE mu
           /\ statsMu' = IF e.on = "stats" THEN Released(statsMu, p, e.op)
                         ELSE statsMu
           /\ logMu' = IF e.on = "log" THEN [logMu EXCEPT ![1] = NoProc]
                       ELSE logMu
    /\ script' = [script EXCEPT ![p] = Tail(@)]
    /\ UNCHANGED <<clock, limit, window, requests, metrics, store, stats,
                   dbConfigured, budget, pc, req, now, snap, ctx, result, ops,
                   completed, failed, admitLog, clientVars, retries, wired,
                   health, elapsed, loggers, fields, lpc>>

\* A call to Redis or to the database returns.
BackendReturns(p) ==
    /\ script[p] # <<>>
    /\ Head(script[p]) = BackendEv
    /\ script' = [script EXCEPT ![p] = Tail(@)]
    /\ UNCHANGED <<rlMu, mu, statsMu, logMu>>
    /\ UNCHANGED <<clock, limit, window, requests, metrics, store, stats,
                   dbConfigured, budget, pc, req, now, snap, ctx, result, ops,
                   completed, failed, admitLog, clientVars, retries, wired,
                   health, elapsed, loggers, fields, lpc>>

InitLocks ==
    /\ InitCommon
    /\ limit = RefLimit
    /\ window = RefWindow
    /\ dbConfigured \in BOOLEAN
    /\ budget = MaxInvokes

NextLocks ==
    \/ \E p \in Procs, sc \in OpScripts : Invoke(p, sc)
    \/ \E p \in Procs : Acquire(p)
    \/ \E p \in Procs : Release(p)
    \/ \E p \in Procs : BackendReturns(p)

SpecLocks == InitLocks /\ [][NextLocks]_vars

\* A goroutine that can run does run; a backend call returns; a mutex that
\* stays free is granted to a goroutine waiting for it.
SpecLocksFair ==
    /\ SpecLocks
    /\ \A p \in Procs :
           /\ WF_vars(Acquire(p))
           /\ WF_vars(Release(p))
           /\ WF_vars(BackendReturns(p))

\* Goroutine p can take its next step.
CanStep(p) ==
    /\ script[p] # <<>>
    /\ Head(script[p]).op \in {"Lock", "RLock"} => Available(Head(script[p]))

\* C36: no goroutine holds two of the three locks at once; a goroutine about
\* to call a backend holds none of them; while an operation is unfinished
\* some goroutine can step (no deadlock); and every operation started
\* finishes, given that backend calls return.
C36_LocksNeverNest ==
    /\ [](\A p \in Procs :
            /\ Cardinality(Held(p)) <= 1
            /\ (script[p] # <<>> /\ Head(script[p]) = BackendEv)
                   => Held(p) = {})
    /\ []((\E p \in Procs : script[p] # <<>>) => \E p \in Procs : CanStep(p))
    /\ \A p \in Procs : (script[p] # <<>>) ~> (script[p] = <<>>)

\* One goroutine is inside recordMetrics holding Blueprint.mu while the
\* other, in a Call with a backend call still ahead, waits for that mutex.
C36_Witness ==
    \E p, q \in Procs :
        /\ mu.w = p
        /\ script[q] # <<>>
        /\ Head(script[q]) = LockEv("mu")
        /\ \E i \in DOMAIN script[q] : script[q][i] = BackendEv

====
